---- MODULE Spec2Model ----
(***************************************************************************)
(* A model of ldconfig-rs: the version comparator and symlink reconciler   *)
(* (src/src/symlinks.rs), the cache codec (src/src/internal/               *)
(* cache_format.rs), the scanner and deduplicator (src/src/scanner.rs),    *)
(* the capability registry (src/src/hwcap.rs), the builder                 *)
(* (src/src/builder.rs), the writer (src/src/writer.rs) and the main of    *)
(* the binary (src/src/bin/ldconfig.rs).                                   *)
(*                                                                         *)
(* Strings are sequences of code points (ASCII codes); bytes are naturals  *)
(* below 256.  The build target is little-endian (x86-64, AArch64): on it  *)
(* u32::from_ne_bytes and u32::from_le_bytes agree.                        *)
(***************************************************************************)
EXTENDS Integers, Sequences, FiniteSets, TLC

VARIABLES
    cmp_a,      \* compare_library_versions: first argument
    cmp_b,      \* compare_library_versions: second argument
    cmp_out,    \* compare_library_versions: the Ordering returned, or "none"
    fs,         \* the filesystem: absolute path -> node
    cwd,        \* the process's current working directory
    libraries,  \* build_cache: the descriptor list passed in
    prefix,     \* build_cache: the root prefix, an Option
    cache,      \* the bytes build_cache returned
    data,       \* parse_cache: the bytes passed in
    parsed,     \* parse_cache: its outcome, or "none"
    codec_pc,   \* codec: "start", "built" (cache holds the build), "input" (data chosen), "parsed"
    fs0,        \* the filesystem before the first operation
    directories,\* the search directories (LibraryConfig::directories)
    options,    \* ScanOptions: [update_symlinks, dry_run]
    scan_result,\* what scan_all_libraries returned once scan_pc is "scanned" or "scan_failed": None for Err;
                \* the locals [scan_dirs, libraries] of main once scan_pc is "main_built"
    runs,       \* the calls of update_symlinks so far: [dry_run, ok, actions, before, after, libs]
    scan_pc,    \* "api" (the caller drives scanner and reconciler), then "scanned" or
                \* "scan_failed"; "builder" (the caller drives CacheBuilder), then
                \* "collected" or "collect_failed"; "main" (the binary runs), then
                \* "main_built" and "main_done", or "main_failed"
    dedup_in,   \* deduplicate_libraries, deduplicate_scan_directories: the list passed in
    dedup_out,  \* the list returned
    dedup_pc,   \* "libraries" or "directories" (which function is to be called), then
                \* "unique_libraries" or "unique_directories"
    dest,       \* write_to_file: the file at the destination path, None when there is
                \* none, else Some(its bytes)
    durable,    \* the bytes of that file that are on stable storage, likewise
    writer_pc   \* write_to_file: the call that comes next ("create_dir_all", "create",
                \* "write_all", "flush", "sync_all"), or the result returned ("Ok", "Err")

cmp_vars == <<cmp_a, cmp_b, cmp_out>>
codec_vars == <<libraries, prefix, cache, data, parsed, codec_pc>>
fs_vars == <<fs, cwd>>
scan_vars == <<fs0, directories, options, scan_result, runs, scan_pc>>

dedup_vars == <<dedup_in, dedup_out, dedup_pc>>
writer_vars == <<dest, durable, writer_pc>>

vars == <<cmp_a, cmp_b, cmp_out, fs, cwd, libraries, prefix, cache, data, parsed, codec_pc,
          fs0, directories, options, scan_result, runs, scan_pc,
          dedup_in, dedup_out, dedup_pc, dest, durable, writer_pc>>

(***************************************************************************)
(* Bounds.                                                                 *)
(***************************************************************************)
\* longest name drawn from the comparator's alphabet
MaxNameLen == 3
\* longest descriptor list given to build_cache
MaxLibs == 3
\* calls of update_symlinks in one behaviour
MaxRuns == 2
\* symbolic links followed while resolving one path
MaxSymlinkHops == 3

(***************************************************************************)
(* Strings.                                                                *)
(***************************************************************************)
\* std::cmp::Ordering of two integers (u64::cmp, char::cmp)
cmp_int(x, y) == IF x < y THEN "Less" ELSE IF x > y THEN "Greater" ELSE "Equal"

\* str::cmp: byte-wise lexicographic order, a strict prefix is Less
RECURSIVE str_cmp_from(_, _, _)
str_cmp_from(s, t, i) ==
    IF i > Len(s) /\ i > Len(t) THEN "Equal"
    ELSE IF i > Len(s) THEN "Less"
    ELSE IF i > Len(t) THEN "Greater"
    ELSE IF s[i] # t[i] THEN cmp_int(s[i], t[i])
    ELSE str_cmp_from(s, t, i + 1)

str_cmp(s, t) == str_cmp_from(s, t, 1)

\* str::starts_with
starts_with(s, p) == Len(p) <= Len(s) /\ SubSeq(s, 1, Len(p)) = p

\* str::ends_with
ends_with(s, p) == Len(p) <= Len(s) /\ SubSeq(s, Len(s) - Len(p) + 1, Len(s)) = p

\* str::contains
contains(s, p) == \E i \in 1..(Len(s) - Len(p) + 1) : SubSeq(s, i, i + Len(p) - 1) = p

\* s is a strict prefix of t
IsStrictPrefix(s, t) == Len(s) < Len(t) /\ SubSeq(t, 1, Len(s)) = s

\* all strings over alphabet of length at most n
RECURSIVE StringsUpTo(_, _)
StringsUpTo(alphabet, n) ==
    IF n = 0 THEN {<<>>}
    ELSE LET shorter == StringsUpTo(alphabet, n - 1)
         IN  shorter \cup {Append(s, c) : s \in shorter, c \in alphabet}

(***************************************************************************)
(* The version comparator, src/src/symlinks.rs.                            *)
(***************************************************************************)
\* char::is_ascii_digit
is_ascii_digit(c) == c >= 48 /\ c <= 57

\* The inner while loops: consume the digits of s from position i on,
\* accumulating num = num * 10 + digit.
RECURSIVE take_digits(_, _, _)
take_digits(s, i, num) ==
    IF i <= Len(s) /\ is_ascii_digit(s[i])
    THEN take_digits(s, i + 1, num * 10 + (s[i] - 48))
    ELSE [num |-> num, pos |-> i]

\* One iteration of the comparator's loop with the two iterators at i and j.
RECURSIVE compare_from(_, _, _, _)
compare_from(a, b, i, j) ==
    IF i > Len(a) /\ j > Len(b) THEN "Equal"
    ELSE IF i > Len(a) THEN "Less"
    ELSE IF j > Len(b) THEN "Greater"
    ELSE IF is_ascii_digit(a[i]) /\ is_ascii_digit(b[j])
         THEN LET ra == take_digits(a, i, 0)
                  rb == take_digits(b, j, 0)
              IN  IF ra.num # rb.num
                  THEN cmp_int(ra.num, rb.num)
                  ELSE compare_from(a, b, ra.pos, rb.pos)
         ELSE IF a[i] # b[j]
              THEN cmp_int(a[i], b[j])
              ELSE compare_from(a, b, i + 1, j + 1)

\* A comparator that compares digits like any other character.
compare_library_versions_bytewise(a, b) == str_cmp(a, b)

\* A comparator for which a name is lower than its own strict prefix, too.
compare_library_versions_prefix_low(a, b) ==
    IF IsStrictPrefix(b, a) /\ compare_from(a, b, 1, 1) = "Greater" THEN "Less"
    ELSE compare_from(a, b, 1, 1)

compare_library_versions(a, b) == compare_from(a, b, 1, 1)

(***************************************************************************)
(* Option and Result values: None / Err is <<>>, Some(v) / Ok(v) is <<v>>. *)
(***************************************************************************)
None == <<>>
Some(v) == <<v>>
is_some(o) == o # <<>>
unwrap_or(o, d) == IF o = <<>> THEN d ELSE o[1]

(***************************************************************************)
(* Paths (camino::Utf8Path) as strings.                                    *)
(***************************************************************************)
\* position of the last '/' of p, 0 if there is none
last_slash(p) == IF \E i \in 1..Len(p) : p[i] = 47
                 THEN CHOOSE i \in 1..Len(p) : p[i] = 47 /\ \A j \in (i + 1)..Len(p) : p[j] # 47
                 ELSE 0

\* Utf8Path::file_name: the final component, None for "", "/" and ".."
file_name(p) ==
    LET name == SubSeq(p, last_slash(p) + 1, Len(p))
    IN  IF name = <<>> \/ name = <<46, 46>> THEN None ELSE Some(name)

\* Utf8Path::parent: the path without its final component, None for "" and "/"
parent(p) ==
    IF p = <<>> \/ p = <<47>> THEN None
    ELSE IF last_slash(p) = 0 THEN Some(<<>>)
    ELSE IF last_slash(p) = 1 THEN Some(<<47>>)
    ELSE Some(SubSeq(p, 1, last_slash(p) - 1))

\* Utf8Path::join: an absolute second path replaces the first
join(base, name) ==
    IF name # <<>> /\ name[1] = 47 THEN name
    ELSE IF base = <<>> THEN name
    ELSE IF base[Len(base)] = 47 THEN base \o name
    ELSE base \o <<47>> \o name

\* the components of a path, the root directory being the component "/"
RECURSIVE split_from(_, _, _)
split_from(p, i, cur) ==
    IF i > Len(p) THEN (IF cur = <<>> THEN <<>> ELSE <<cur>>)
    ELSE IF p[i] = 47
         THEN (IF cur = <<>> THEN <<>> ELSE <<cur>>) \o split_from(p, i + 1, <<>>)
         ELSE split_from(p, i + 1, Append(cur, p[i]))

components(p) ==
    (IF p # <<>> /\ p[1] = 47 THEN <<(<<47>>)>> ELSE <<>>) \o split_from(p, 1, <<>>)

\* the components joined by '/' (a relative path)
RECURSIVE join_components(_)
join_components(cs) ==
    IF cs = <<>> THEN <<>>
    ELSE IF Len(cs) = 1 THEN cs[1]
    ELSE cs[1] \o <<47>> \o join_components(Tail(cs))

\* Utf8Path::strip_prefix: component-wise, Err when base is no prefix
strip_prefix(p, base) ==
    LET pc == components(p)
        bc == components(base)
    IN  IF Len(bc) <= Len(pc) /\ SubSeq(pc, 1, Len(bc)) = bc
        THEN Some(join_components(SubSeq(pc, Len(bc) + 1, Len(pc))))
        ELSE None

(***************************************************************************)
(* The filesystem.  fs maps the absolute paths that exist to their nodes:  *)
(*   [kind |-> "dir"], [kind |-> "file", elf |-> Option of ELF facts],     *)
(*   [kind |-> "link", target |-> path].  "/" always exists.               *)
(***************************************************************************)
Dir == [kind |-> "dir"]
\* a directory that may be traversed but not listed (no read permission)
UnlistableDir == [kind |-> "dir", list |-> "denied"]
Link(t) == [kind |-> "link", target |-> t]
File(e) == [kind |-> "file", elf |-> e]

\* a path made absolute against the directory at
absolute(at, p) == join(at, p)

\* realpath: every symbolic link resolved, Err if a component is missing or
\* more than hops links were followed.  resolve_in looks name up in the
\* resolved directory par; resolve_at follows the node at q.
RECURSIVE realpath(_, _, _)
RECURSIVE resolve_in(_, _, _, _)
RECURSIVE resolve_at(_, _, _, _)
resolve_at(f, dir, q, hops) ==
    IF q \notin DOMAIN f THEN None
    ELSE IF f[q].kind = "link"
         THEN IF hops = 0 THEN None
              ELSE realpath(f, absolute(dir, f[q].target), hops - 1)
         ELSE Some(q)

resolve_in(f, par, name, hops) ==
    IF par = None THEN None ELSE resolve_at(f, par[1], join(par[1], name), hops)

realpath(f, p, hops) ==
    IF p = <<47>> THEN Some(p)
    ELSE resolve_in(f, realpath(f, parent(p)[1], hops), file_name(p)[1], hops)

\* Path::canonicalize: a relative path is resolved against the working directory
canonicalize(f, wd, p) ==
    IF p = <<>> THEN None ELSE realpath(f, absolute(wd, p), MaxSymlinkHops)

\* Path::exists: follows symbolic links
exists(f, wd, p) == canonicalize(f, wd, p) # None

\* the node at the absolute path q, an Option
node_at(f, q) ==
    IF q = None THEN None
    ELSE IF q[1] = <<47>> THEN Some(Dir)
    ELSE IF q[1] \in DOMAIN f THEN Some(f[q[1]])
    ELSE None

\* where the object named by the absolute path a lives: its resolved
\* directory joined with its final component, None when the directory does
\* not resolve
locate_in(par, name) ==
    IF par = None \/ name = None THEN None ELSE Some(join(par[1], name[1]))

locate_absolute(f, a) ==
    IF a = <<47>> THEN Some(a)
    ELSE locate_in(realpath(f, parent(a)[1], MaxSymlinkHops), file_name(a))

\* where the object named by p lives, no link followed in the last component
locate(f, wd, p) ==
    IF p = <<>> THEN None ELSE locate_absolute(f, absolute(wd, p))

\* the node itself, no link followed in the last component (symlink_metadata)
lstat(f, wd, p) == node_at(f, locate(f, wd, p))

\* the node a path resolves to (metadata), None if it resolves to nothing
stat(f, wd, p) == node_at(f, canonicalize(f, wd, p))

\* the node n exists and is of kind k
is_kind(n, k) == n # None /\ n[1].kind = k

(***************************************************************************)
(* The cache codec, src/src/internal/cache_format.rs.                      *)
(***************************************************************************)
\* b"glibc-ld.so.cache1.1"
CACHE_MAGIC == <<103, 108, 105, 98, 99, 45, 108, 100, 46, 115, 111, 46, 99, 97, 99, 104, 101, 49, 46, 49>>

FLAG_ELF_LIBC6 == 3
FLAG_X8664_LIB64 == 768
FLAG_POWERPC_LIB64 == 1280
FLAG_ARM_LIBHF == 2304
FLAG_AARCH64_LIB64 == 2560
FLAG_RISCV_FLOAT_ABI_DOUBLE == 4096

\* 0xEAA42174u32.to_le_bytes()
EXTENSION_MAGIC_le == <<116, 33, 164, 234>>

\* format!("ldconfig-rs {}", env!("CARGO_PKG_VERSION")), here "ldconfig-rs 0.1.0"
generator_bytes == <<108, 100, 99, 111, 110, 102, 105, 103, 45, 114, 115, 32, 48, 46, 49, 46, 48>>

\* bitwise or of two naturals
RECURSIVE bit_or(_, _)
bit_or(x, y) ==
    IF x = 0 THEN y
    ELSE IF y = 0 THEN x
    ELSE (IF x % 2 = 1 \/ y % 2 = 1 THEN 1 ELSE 0) + 2 * bit_or(x \div 2, y \div 2)

\* uN::to_le_bytes for N = 8 * k
RECURSIVE to_le_bytes(_, _)
to_le_bytes(n, k) == IF k = 0 THEN <<>> ELSE <<n % 256>> \o to_le_bytes(n \div 256, k - 1)

\* uN::from_le_bytes
RECURSIVE from_le_bytes(_)
from_le_bytes(bs) == IF bs = <<>> THEN 0 ELSE bs[1] + 256 * from_le_bytes(Tail(bs))

\* k zero bytes
zeros(k) == [i \in 1..k |-> 0]

\* arch_to_flags
arch_to_flags(arch, is_64bit, is_hardfloat) ==
    CASE arch = "X86_64" -> IF is_64bit THEN bit_or(FLAG_X8664_LIB64, FLAG_ELF_LIBC6)
                            ELSE FLAG_ELF_LIBC6
      [] arch = "AArch64" -> bit_or(FLAG_AARCH64_LIB64, FLAG_ELF_LIBC6)
      [] arch = "RiscV64" -> bit_or(FLAG_RISCV_FLOAT_ABI_DOUBLE, FLAG_ELF_LIBC6)
      [] arch = "PowerPC64" -> bit_or(FLAG_POWERPC_LIB64, FLAG_ELF_LIBC6)
      [] arch = "I686" -> FLAG_ELF_LIBC6
      [] arch = "ARM" -> IF is_hardfloat THEN bit_or(FLAG_ARM_LIBHF, FLAG_ELF_LIBC6)
                         ELSE FLAG_ELF_LIBC6

\* the architecture constants of src/src/cache.rs that differ from, or are
\* missing in, those of cache_format.rs
Old_FLAG_RISCV64_LIB64 == 1280
Old_FLAG_IA64_LIB64 == 1536
Old_FLAG_POWERPC_LIB64 == 1024

\* the flags the exported cache::build_cache computes for a descriptor
old_build_cache_flags(lib) ==
    CASE lib.arch = "X86_64" -> IF lib.is_64bit THEN bit_or(FLAG_X8664_LIB64, FLAG_ELF_LIBC6)
                                ELSE FLAG_ELF_LIBC6
      [] lib.arch = "AArch64" -> bit_or(FLAG_AARCH64_LIB64, FLAG_ELF_LIBC6)
      [] lib.arch = "RiscV64" -> bit_or(Old_FLAG_RISCV64_LIB64, FLAG_ELF_LIBC6)
      [] lib.arch = "PowerPC64" -> bit_or(Old_FLAG_POWERPC_LIB64, FLAG_ELF_LIBC6)
      [] lib.arch = "IA64" -> bit_or(Old_FLAG_IA64_LIB64, FLAG_ELF_LIBC6)
      [] lib.arch = "I686" -> FLAG_ELF_LIBC6
      [] lib.arch = "ARM" -> IF lib.is_hardfloat THEN bit_or(FLAG_ARM_LIBHF, FLAG_ELF_LIBC6)
                             ELSE FLAG_ELF_LIBC6

\* lib.path.file_name().unwrap_or(lib.path.as_str())
lib_filename(lib) == unwrap_or(file_name(lib.path), lib.path)

\* A sort closure that orders filenames ascending.
sort_cmp_ascending(a, b) ==
    LET o == str_cmp(lib_filename(a), lib_filename(b))
    IN  IF o = "Equal" THEN cmp_int(unwrap_or(b.hwcap, 0), unwrap_or(a.hwcap, 0)) ELSE o

\* the closure given to sort_by: filename descending, then hwcap descending
sort_cmp(a, b) ==
    LET o == str_cmp(lib_filename(b), lib_filename(a))
    IN  IF o = "Equal" THEN cmp_int(unwrap_or(b.hwcap, 0), unwrap_or(a.hwcap, 0)) ELSE o

\* x, which followed every element of sorted in the input, put in its place
RECURSIVE insert_sorted(_, _)
insert_sorted(sorted, x) ==
    IF sorted = <<>> THEN <<x>>
    ELSE IF sort_cmp(x, sorted[1]) = "Less" THEN <<x>> \o sorted
    ELSE <<sorted[1]>> \o insert_sorted(Tail(sorted), x)

\* slice::sort_by, a stable sort
RECURSIVE sort_by(_)
sort_by(libs) ==
    IF libs = <<>> THEN <<>>
    ELSE insert_sorted(sort_by(SubSeq(libs, 1, Len(libs) - 1)), libs[Len(libs)])

\* An add_string that appends every string, seen before or not.
add_string_always(st, string) ==
    [table |-> st.table \o string \o <<0>>,
     offsets |-> (string :> Len(st.table)) @@ st.offsets]

\* An add_string that records the length of the table after the append.
add_string_offset_after(st, string) ==
    IF string \in DOMAIN st.offsets THEN st
    ELSE [table |-> st.table \o string \o <<0>>,
          offsets |-> st.offsets @@ (string :> Len(st.table) + Len(string) + 1)]

\* add_string: st is the table and the offsets map
add_string(st, string) ==
    IF string \in DOMAIN st.offsets THEN st
    ELSE [table |-> st.table \o string \o <<0>>,
          offsets |-> st.offsets @@ (string :> Len(st.table))]

\* A stored path that is never rewritten relative to the prefix.
path_to_add_unrewritten(f, wd, lib, pfx) ==
    join(unwrap_or(canonicalize(f, wd, unwrap_or(parent(lib.path), <<>>)),
                   unwrap_or(parent(lib.path), <<>>)),
         unwrap_or(file_name(lib.path), lib.path))

\* the path string stored for a descriptor
path_to_add(f, wd, lib, pfx) ==
    LET dir == unwrap_or(parent(lib.path), <<>>)
        filename_part == lib_filename(lib)
        canonical_dir == unwrap_or(canonicalize(f, wd, dir), dir)
        canonical_path == join(canonical_dir, filename_part)
    IN  IF is_some(pfx)
        THEN LET canonical_prefix == unwrap_or(canonicalize(f, wd, pfx[1]), pfx[1])
                 stripped == strip_prefix(canonical_path, canonical_prefix)
             IN  IF is_some(stripped) THEN <<47>> \o stripped[1] ELSE canonical_path
        ELSE canonical_path

\* the first loop over sorted_libs: the string table
RECURSIVE build_strings(_, _, _, _, _)
build_strings(f, wd, sorted_libs, pfx, st) ==
    IF sorted_libs = <<>> THEN st
    ELSE LET lib == sorted_libs[1]
             st1 == add_string(st, lib_filename(lib))
             st2 == add_string(st1, path_to_add(f, wd, lib, pfx))
         IN  build_strings(f, wd, Tail(sorted_libs), pfx, st2)

\* string_offsets.get(s), 0 (with a warning) when s is missing
offset_or_zero(offsets, string) == IF string \in DOMAIN offsets THEN offsets[string] ELSE 0

\* An entry that keeps the offsets relative to the string table.
entry_bytes_relative(f, wd, lib, pfx, offsets, string_table_file_offset) ==
    to_le_bytes(arch_to_flags(lib.arch, lib.is_64bit, lib.is_hardfloat), 4)
    \o to_le_bytes(offset_or_zero(offsets, lib_filename(lib)), 4)
    \o to_le_bytes(offset_or_zero(offsets, path_to_add(f, wd, lib, pfx)), 4)
    \o to_le_bytes(lib.osversion, 4)
    \o to_le_bytes(unwrap_or(lib.hwcap, 0), 8)

\* the 24 bytes of one entry
entry_bytes(f, wd, lib, pfx, offsets, string_table_file_offset) ==
    LET key_relative_offset == offset_or_zero(offsets, lib_filename(lib))
        value_relative_offset == offset_or_zero(offsets, path_to_add(f, wd, lib, pfx))
    IN  to_le_bytes(arch_to_flags(lib.arch, lib.is_64bit, lib.is_hardfloat), 4)
        \o to_le_bytes(string_table_file_offset + key_relative_offset, 4)
        \o to_le_bytes(string_table_file_offset + value_relative_offset, 4)
        \o to_le_bytes(lib.osversion, 4)
        \o to_le_bytes(unwrap_or(lib.hwcap, 0), 8)

\* the second loop over sorted_libs: the entries
RECURSIVE build_entries(_, _, _, _, _, _)
build_entries(f, wd, sorted_libs, pfx, offsets, string_table_file_offset) ==
    IF sorted_libs = <<>> THEN <<>>
    ELSE entry_bytes(f, wd, sorted_libs[1], pfx, offsets, string_table_file_offset)
         \o build_entries(f, wd, Tail(sorted_libs), pfx, offsets, string_table_file_offset)

\* A build that puts the extension section right after the string table.
padding_none(len) == zeros(0)

\* while cache.len() % 4 != 0 { cache.push(0) }
padding(len) == zeros((4 - (len % 4)) % 4)

\* the bytes written once entries, string table and alignment padding are known
write_cache(nlibs, entries, string_table, pad) ==
    LET extension_offset == 48 + Len(entries) + Len(string_table) + Len(pad)
        generator_data_offset == extension_offset + 4 + 4 + 16
        header == CACHE_MAGIC
                  \o to_le_bytes(nlibs, 4)
                  \o to_le_bytes(Len(string_table), 4)
                  \o <<2>> \o zeros(3)
                  \o to_le_bytes(extension_offset, 4)
                  \o zeros(12)
    IN  header \o entries \o string_table \o pad
        \o EXTENSION_MAGIC_le \o to_le_bytes(1, 4)
        \o to_le_bytes(0, 4) \o to_le_bytes(0, 4)
        \o to_le_bytes(generator_data_offset, 4) \o to_le_bytes(Len(generator_bytes), 4)
        \o generator_bytes \o <<0>>

\* the bytes written once the entries and the string table are known
write_aligned(nlibs, entries, string_table) ==
    write_cache(nlibs, entries, string_table, padding(48 + Len(entries) + Len(string_table)))

\* build_cache after the first loop: st is the string table and its offsets
build_entries_and_write(f, wd, sorted_libs, pfx, st) ==
    write_aligned(Len(sorted_libs),
                  build_entries(f, wd, sorted_libs, pfx, st.offsets, 48 + Len(sorted_libs) * 24),
                  st.table)

\* build_cache after the sort
build_sorted(f, wd, sorted_libs, pfx) ==
    build_entries_and_write(f, wd, sorted_libs, pfx,
        build_strings(f, wd, sorted_libs, pfx, [table |-> <<>>, offsets |-> <<>>]))

\* build_cache, reading the filesystem f with working directory wd
build_cache(f, wd, libs, pfx) == build_sorted(f, wd, sort_by(libs), pfx)

\* data[from..to] as a Rust slice with 0-based, half-open bounds
slice(d, from, to) == SubSeq(d, from + 1, to)

\* the i-th entry (0-based) decoded from its 24 bytes
parse_entry(d, i) ==
    LET offset == 48 + i * 24
    IN  [flags |-> from_le_bytes(slice(d, offset, offset + 4)),
         key_offset |-> from_le_bytes(slice(d, offset + 4, offset + 8)),
         value_offset |-> from_le_bytes(slice(d, offset + 8, offset + 12)),
         osversion |-> from_le_bytes(slice(d, offset + 12, offset + 16)),
         hwcap |-> from_le_bytes(slice(d, offset + 16, offset + 24))]

\* the string-table loop: the non-empty runs that a zero byte ends
RECURSIVE split_strings(_, _, _)
split_strings(string_data, i, start) ==
    IF i > Len(string_data) THEN <<>>
    ELSE IF string_data[i] = 0
         THEN (IF i > start THEN <<SubSeq(string_data, start, i - 1)>> ELSE <<>>)
              \o split_strings(string_data, i + 1, i + 1)
         ELSE split_strings(string_data, i + 1, start)

\* the loop over the extension's subsections, from subsection i on
RECURSIVE parse_sections(_, _, _, _, _)
parse_sections(d, extension_offset, ext_count, i, generator) ==
    IF i >= ext_count THEN generator
    ELSE LET section_offset == extension_offset + 8 + i * 16
         IN  IF section_offset + 16 <= Len(d)
             THEN LET tag == from_le_bytes(slice(d, section_offset, section_offset + 4))
                      data_offset == from_le_bytes(slice(d, section_offset + 8, section_offset + 12))
                      data_size == from_le_bytes(slice(d, section_offset + 12, section_offset + 16))
                  IN  parse_sections(d, extension_offset, ext_count, i + 1,
                          IF tag = 0 /\ data_offset + data_size <= Len(d)
                          THEN Some(slice(d, data_offset, data_offset + data_size))
                          ELSE generator)
             ELSE parse_sections(d, extension_offset, ext_count, i + 1, generator)

\* the generator read from the extension section
parse_extension(d) ==
    LET extension_offset == from_le_bytes(slice(d, 32, 36))
    IN  IF extension_offset > 0 /\ extension_offset + 24 <= Len(d)
        THEN IF slice(d, extension_offset, extension_offset + 4) = EXTENSION_MAGIC_le
             THEN parse_sections(d, extension_offset,
                      from_le_bytes(slice(d, extension_offset + 4, extension_offset + 8)), 0, None)
             ELSE None
        ELSE None

\* the thread panicked: an index or a slice bound was out of range
Panicked == [outcome |-> "panic"]

\* parse_cache: Ok(CacheInfo), or a panic where the code indexes past the data
parse_cache(d) ==
    IF Len(d) < 20 THEN Panicked                            \* &data[..20]
    ELSE IF Len(d) < 28 THEN Panicked                       \* data[20] .. data[27]
    ELSE LET nlibs == from_le_bytes(slice(d, 20, 24))
             len_strings == from_le_bytes(slice(d, 24, 28))
             string_table_start == 48 + nlibs * 24
             string_table_end ==
                 IF string_table_start + len_strings < Len(d)
                 THEN string_table_start + len_strings ELSE Len(d)
         IN  IF nlibs > 0 /\ 48 + (nlibs - 1) * 24 + 23 >= Len(d)
             THEN Panicked                                  \* data[offset + 23] of the last entry
             ELSE IF string_table_start > string_table_end
             THEN Panicked                                  \* &data[start..end], start > end
             ELSE IF Len(d) < 36 THEN Panicked              \* data[32] .. data[35]
             ELSE [outcome |-> "ok",
                   header |-> [magic |-> slice(d, 0, 20), nlibs |-> nlibs,
                               len_strings |-> len_strings],
                   entries |-> [i \in 1..nlibs |-> parse_entry(d, i - 1)],
                   string_table |->
                       split_strings(slice(d, string_table_start, string_table_end), 1, 1),
                   generator |-> parse_extension(d)]

\* the NUL-terminated string at an absolute offset of the data
RECURSIVE cstr_at(_, _)
cstr_at(d, offset) ==
    IF offset >= Len(d) \/ d[offset + 1] = 0 THEN <<>>
    ELSE <<d[offset + 1]>> \o cstr_at(d, offset + 1)

(***************************************************************************)
(* The capability registry, src/src/hwcap.rs.                              *)
(***************************************************************************)
\* "x86-64-v2", "x86-64-v3", "x86-64-v4"
x86_64_v2 == <<120, 56, 54, 45, 54, 52, 45, 118, 50>>
x86_64_v3 == <<120, 56, 54, 45, 54, 52, 45, 118, 51>>
x86_64_v4 == <<120, 56, 54, 45, 54, 52, 45, 118, 52>>
\* "haswell", "avx512", "sse", "asimd", "neon", "sve2", "power9", "power10"
haswell == <<104, 97, 115, 119, 101, 108, 108>>
avx512 == <<97, 118, 120, 53, 49, 50>>
sse == <<115, 115, 101>>
asimd == <<97, 115, 105, 109, 100>>
neon == <<110, 101, 111, 110>>
sve2 == <<115, 118, 101, 50>>
power9 == <<112, 111, 119, 101, 114, 57>>
power10 == <<112, 111, 119, 101, 114, 49, 48>>

\* HwCap values: the unit variants, and Custom(String)
HwCapUnit(v) == [variant |-> v, s |-> <<>>]
HwCapCustom(s) == [variant |-> "Custom", s |-> s]

\* HwCap::from_path_component
from_path_component(component) ==
    IF component \in {x86_64_v2, x86_64_v3, x86_64_v4} THEN Some(HwCapCustom(component))
    ELSE IF component = haswell THEN Some(HwCapUnit("Haswell"))
    ELSE IF component = avx512 THEN Some(HwCapUnit("Avx512"))
    ELSE IF component = sse THEN Some(HwCapUnit("Sse"))
    ELSE IF component \in {asimd, neon} THEN Some(HwCapCustom(component))
    ELSE IF component = sve2 THEN Some(HwCapUnit("Sve2"))
    ELSE IF component \in {power9, power10} THEN Some(HwCapUnit("Power9"))
    ELSE None

\* HwCap::to_bitmask: the first arm that matches
to_bitmask(hwcap, arch) ==
    IF arch = "X86_64" /\ hwcap = HwCapCustom(x86_64_v2) THEN 1
    ELSE IF arch = "X86_64" /\ hwcap = HwCapCustom(x86_64_v3) THEN 2
    ELSE IF arch = "X86_64" /\ hwcap = HwCapCustom(x86_64_v4) THEN 4
    ELSE IF arch = "X86_64" /\ hwcap.variant = "Haswell" THEN 2
    ELSE IF arch = "X86_64" /\ hwcap.variant = "Avx512" THEN 4
    ELSE IF arch = "X86_64" /\ hwcap.variant = "Sse" THEN 0
    ELSE IF arch = "AArch64" /\ hwcap = HwCapCustom(asimd) THEN 2
    ELSE IF arch = "AArch64" /\ hwcap = HwCapCustom(neon) THEN 2
    ELSE IF arch = "AArch64" /\ hwcap.variant = "Sve2" THEN 4
    ELSE IF arch = "PowerPC64" /\ hwcap.variant = "Power9" THEN 1
    ELSE IF arch = "PowerPC64" /\ hwcap = HwCapCustom(power10) THEN 2
    ELSE 0

(***************************************************************************)
(* The descriptor extractor, src/src/elf.rs.  The ELF facts of a file are  *)
(* what goblin reports: [et_dyn, pt_dynamic, dynamic, soname, machine,     *)
(* is_64, hard_float].                                                     *)
(***************************************************************************)
\* detect_hwcap_from_path: the first component that names a tier
RECURSIVE first_hwcap_component(_)
first_hwcap_component(cs) ==
    IF cs = <<>> THEN None
    ELSE IF cs[1] = haswell THEN Some(1)
    ELSE IF cs[1] = avx512 THEN Some(2)
    ELSE IF cs[1] = sve2 THEN Some(4)
    ELSE first_hwcap_component(Tail(cs))

detect_hwcap_from_path(path) == first_hwcap_component(components(path))

\* detect_architecture
detect_architecture(machine) ==
    IF machine \in {"X86_64", "AArch64", "RiscV64", "PowerPC64", "I686", "ARM"}
    THEN Some(machine) ELSE None

\* An Extractor that accepts an empty declared name.
describe_elf_empty_soname(elf, path) ==
    IF ~elf.et_dyn \/ ~elf.pt_dynamic THEN None
    ELSE IF ~elf.dynamic THEN None
    ELSE IF detect_architecture(elf.machine) = None THEN None
    ELSE Some([soname |-> elf.soname,
               path |-> path,
               is_64bit |-> elf.is_64,
               arch |-> elf.machine,
               is_hardfloat |-> (elf.machine = "ARM" /\ elf.hard_float),
               osversion |-> 0,
               hwcap |-> detect_hwcap_from_path(path)])

\* the descriptor of a file whose ELF facts are elf, or None
describe_elf(elf, path) ==
    IF ~elf.et_dyn \/ ~elf.pt_dynamic THEN None                      \* validate_elf
    ELSE IF ~elf.dynamic \/ elf.soname = <<>> THEN None              \* extract_soname
    ELSE IF detect_architecture(elf.machine) = None THEN None
    ELSE Some([soname |-> elf.soname,
               path |-> path,
               is_64bit |-> elf.is_64,
               arch |-> elf.machine,
               is_hardfloat |-> (elf.machine = "ARM" /\ elf.hard_float),
               osversion |-> 0,
               hwcap |-> detect_hwcap_from_path(path)])

\* the descriptor of the node that path resolves to, or None
describe(node, path) ==
    IF ~is_kind(node, "file") THEN None                              \* File::open, Mmap::map
    ELSE IF node[1].elf = None THEN None                             \* Elf::parse
    ELSE describe_elf(node[1].elf[1], path)

\* parse_elf_file: the descriptor of the file at path, None when it is skipped
parse_elf_file(f, wd, path) == describe(stat(f, wd, path), path)

(***************************************************************************)
(* The scanner, src/src/scanner.rs.                                        *)
(***************************************************************************)
\* is_dso
is_dso(name) ==
    \/ (starts_with(name, <<108, 105, 98>>) \/ starts_with(name, <<108, 100, 45>>))
       /\ contains(name, <<46, 115, 111>>)
    \/ starts_with(name, <<108, 100, 46, 115, 111, 46>>)
    \/ starts_with(name, <<108, 100, 54, 52, 46, 115, 111, 46>>)

\* should_scan_library
should_scan_library(path) ==
    LET filename == file_name(path)
    IN  is_some(filename) /\ is_dso(filename[1])

\* Path::is_file, Path::is_dir: symbolic links are followed
is_file(f, wd, p) == is_kind(stat(f, wd, p), "file")
is_dir(f, wd, p) == is_kind(stat(f, wd, p), "dir")

\* symlink_metadata(path).map(|m| m.file_type().is_symlink()).unwrap_or(false)
is_symlink(f, wd, p) == is_kind(lstat(f, wd, p), "link")

\* the names in a directory: the children of its canonical path
children_of(f, c) ==
    IF c = None THEN {}
    ELSE {file_name(p)[1] : p \in {q \in DOMAIN f : parent(q) = c}}

children(f, wd, dir) == children_of(f, canonicalize(f, wd, dir))

\* the orderings of a finite set
Orderings(S) == {o \in [1..Cardinality(S) -> S] : \A i, j \in DOMAIN o : o[i] = o[j] => i = j}

\* the target of a bare .so link names the same library with a version
is_versioned_target(target_name, base) ==
    /\ starts_with(target_name, base \o <<46>>)
    /\ contains(target_name, <<46, 115, 111, 46>>)

\* fs::read_link: the target of the link at path, None (Err) for anything else
read_link_of(node) == IF is_kind(node, "link") THEN Some(node[1].target) ELSE None

read_link(f, wd, path) == read_link_of(lstat(f, wd, path))

\* the first branch of should_include_symlink: a bare .so name
include_bare(filename, target) ==
    IF target = None THEN FALSE
    ELSE is_versioned_target(unwrap_or(file_name(target[1]), <<>>),
                             SubSeq(filename, 1, Len(filename) - 3))

\* should_include_symlink
should_include_symlink(f, wd, filename, soname, path) ==
    IF ends_with(filename, <<46, 115, 111>>) /\ ~contains(filename, <<46, 115, 111, 46>>)
    THEN include_bare(filename, read_link(f, wd, path))
    ELSE filename = soname

\* A tier pass that leaves the bitmask guessed from the path.
set_hwcap_keep_guess(lib, hwcap) == lib

\* the tier pass sets the bitmask from the tag and the descriptor's architecture
set_hwcap(lib, hwcap) == [lib EXCEPT !.hwcap = Some(to_bitmask(hwcap, lib.arch))]

\* the names in dir that the scan loop pushes a descriptor for
scan_candidates(f, wd, dir) ==
    {n \in children(f, wd, dir) :
        LET path == join(dir, n)
        IN  /\ is_file(f, wd, path)
            /\ should_scan_library(path)
            /\ parse_elf_file(f, wd, path) # None}

\* one pass of the scan loop over a directory, tier being None for a base
\* directory: the descriptors pushed, each with its is_symlink flag, in every
\* order read_dir may list the directory in
scan_entries(f, wd, dir, tier, names) ==
    LET entry(n) ==
            LET path == join(dir, n)
                lib == parse_elf_file(f, wd, path)[1]
            IN  [lib |-> IF tier = None THEN lib ELSE set_hwcap(lib, tier[1]),
                 is_symlink |-> is_symlink(f, wd, path)]
    IN  {[i \in DOMAIN o |-> entry(o[i])] : o \in Orderings(names)}

scan_dir_entries(f, wd, dir, tier) ==
    scan_entries(f, wd, dir, tier, scan_candidates(f, wd, dir))

\* detect_hwcap_dirs: the (path, tag) pairs of the recognized subdirectories,
\* in every order read_dir may list them in
detect_hwcap_dirs(f, wd, base_dir) ==
    IF ~exists(f, wd, base_dir) THEN {<<>>}
    ELSE LET tiers == {n \in children(f, wd, base_dir) :
                          /\ is_dir(f, wd, join(base_dir, n))
                          /\ from_path_component(n) # None}
         IN  {[i \in DOMAIN o |-> <<join(base_dir, o[i]), from_path_component(o[i])[1]>>] :
                 o \in Orderings(tiers)}

RECURSIVE scan_hwcap_dirs(_, _, _)
scan_hwcap_dirs(f, wd, hwcap_dirs) ==
    IF hwcap_dirs = <<>> THEN {<<>>}
    ELSE {a \o b : a \in scan_dir_entries(f, wd, hwcap_dirs[1][1], Some(hwcap_dirs[1][2])),
                   b \in scan_hwcap_dirs(f, wd, Tail(hwcap_dirs))}

\* the body of the loop over dirs
RECURSIVE scan_dirs(_, _, _)
scan_dirs(f, wd, dirs) ==
    IF dirs = <<>> THEN {<<>>}
    ELSE IF ~exists(f, wd, dirs[1]) THEN scan_dirs(f, wd, Tail(dirs))
    ELSE UNION {{a \o t \o b : a \in scan_dir_entries(f, wd, dirs[1], None),
                               t \in scan_hwcap_dirs(f, wd, hwcap_dirs),
                               b \in scan_dirs(f, wd, Tail(dirs))} :
                   hwcap_dirs \in detect_hwcap_dirs(f, wd, dirs[1])}

\* fs::read_dir(dir) is Err: dir is missing, is no directory, or may not be listed
read_dir_fails(f, wd, dir) == stat(f, wd, dir) # Some(Dir)

\* the recognized tier subdirectories of base_dir
hwcap_subdirs(f, wd, base_dir) ==
    {join(base_dir, n) : n \in {m \in children(f, wd, base_dir) :
                                   /\ is_dir(f, wd, join(base_dir, m))
                                   /\ from_path_component(m) # None}}

\* A scan loop whose `?` also fires on a candidate the Extractor rejects.
scan_dir_fails_on_rejected_file(f, wd, dir) ==
    \/ read_dir_fails(f, wd, dir)
    \/ \E t \in hwcap_subdirs(f, wd, dir) : read_dir_fails(f, wd, t)
    \/ \E n \in children(f, wd, dir) :
          should_scan_library(join(dir, n)) /\ parse_elf_file(f, wd, join(dir, n)) = None

\* one of the `?` of the loop body returns Err for dir: read_dir of dir, of
\* dir inside detect_hwcap_dirs, or of one of its tier subdirectories
scan_dir_fails(f, wd, dir) ==
    \/ read_dir_fails(f, wd, dir)
    \/ \E t \in hwcap_subdirs(f, wd, dir) : read_dir_fails(f, wd, t)

\* scan_all_libraries: the results it may return, None being Err (a
\* read_dir that fails in a directory that exists), Some([real_files,
\* symlinks]) being Ok
scan_all_libraries(f, wd, dirs) ==
    IF \E i \in DOMAIN dirs : exists(f, wd, dirs[i]) /\ scan_dir_fails(f, wd, dirs[i])
    THEN {None}
    ELSE LET real(e) == ~e.is_symlink
             link(e) == e.is_symlink
             libs(es) == [i \in DOMAIN es |-> es[i].lib]
         IN  {Some([real_files |-> libs(SelectSeq(es, real)),
                    symlinks |-> libs(SelectSeq(es, link))]) : es \in scan_dirs(f, wd, dirs)}

\* A deduplication in which a later descriptor replaces an earlier one.
deduplicate_libraries_last(libs) ==
    LET key(lib) == <<unwrap_or(parent(lib.path), <<>>), unwrap_or(file_name(lib.path), lib.path)>>
        last == {i \in DOMAIN libs : \A j \in (i + 1)..Len(libs) : key(libs[j]) # key(libs[i])}
    IN  {[k \in DOMAIN o |-> libs[o[k]]] : o \in Orderings(last)}

\* deduplicate_libraries: the first descriptor of every (directory, filename)
\* pair, in every order the map may be iterated in
deduplicate_libraries(libs) ==
    LET key(lib) == <<unwrap_or(parent(lib.path), <<>>), unwrap_or(file_name(lib.path), lib.path)>>
        first == {i \in DOMAIN libs : \A j \in 1..(i - 1) : key(libs[j]) # key(libs[i])}
    IN  {[k \in DOMAIN o |-> libs[o[k]]] : o \in Orderings(first)}

\* A deduplication that keeps the first spelling of every canonical path.
deduplicate_scan_directories_spelling(f, wd, dirs) ==
    LET canonical(d) == unwrap_or(canonicalize(f, wd, d), d)
    IN  Orderings({dirs[i] : i \in {j \in DOMAIN dirs :
            \A k \in 1..(j - 1) : canonical(dirs[k]) # canonical(dirs[j])}})

\* deduplicate_scan_directories: the distinct canonical paths, a directory that
\* fails to canonicalize standing for itself, in every order the map may be
\* iterated in
deduplicate_scan_directories(f, wd, dirs) ==
    Orderings({unwrap_or(canonicalize(f, wd, dirs[i]), dirs[i]) : i \in DOMAIN dirs})

(***************************************************************************)
(* The reconciler, src/src/symlinks.rs.                                    *)
(***************************************************************************)
\* f without the node at q
unlink(f, q) == [x \in DOMAIN f \ {q} |-> f[x]]

remove_at(f, q) ==
    IF q # None /\ q[1] \in DOMAIN f /\ f[q[1]].kind # "dir"
    THEN [ok |-> TRUE, fs |-> unlink(f, q[1])]
    ELSE [ok |-> FALSE, fs |-> f]

\* fs::remove_file: unlinks a file or a symbolic link; Err (nothing changes)
\* for a directory or a missing path
remove_file(f, wd, p) == remove_at(f, locate(f, wd, p))

\* d is "/" or a directory of f
is_dir_at(f, d) == d = <<47>> \/ (d \in DOMAIN f /\ f[d].kind = "dir")

symlink_at(f, target, q) ==
    IF q # None /\ q[1] # <<47>> /\ q[1] \notin DOMAIN f /\ is_dir_at(f, parent(q[1])[1])
    THEN [ok |-> TRUE, fs |-> (q[1] :> Link(target)) @@ f]
    ELSE [ok |-> FALSE, fs |-> f]

\* create_symlink: Err when something is at link already, or when its
\* directory is missing
create_symlink(f, wd, target, link) == symlink_at(f, target, locate(f, wd, link))

\* find_highest_version_library: max_by keeps the last of several maxima
RECURSIVE max_by_filename(_, _)
max_by_filename(libs, best) ==
    IF libs = <<>> THEN best
    ELSE LET filename_best == unwrap_or(file_name(best.path), <<>>)
             filename_next == unwrap_or(file_name(libs[1].path), <<>>)
         IN  max_by_filename(Tail(libs),
                 IF compare_library_versions(filename_best, filename_next) = "Greater"
                 THEN best ELSE libs[1])

\* A selection that takes the first file of the group.
find_first_library(libs) == libs[1]

find_highest_version_library(libs) == max_by_filename(Tail(libs), libs[1])

\* the comparison of should_create_symlink: both paths canonicalized where
\* that succeeds, then compared as paths
same_target(f, wd, current, target_path) ==
    components(unwrap_or(canonicalize(f, wd, current), current))
        = components(unwrap_or(canonicalize(f, wd, target_path), target_path))

differs(f, wd, current_target, target_path) ==
    IF current_target = None THEN TRUE                              \* read_link is Err
    ELSE ~same_target(f, wd, current_target[1], target_path)

\* should_create_symlink (it never returns Err)
should_create_symlink(f, wd, link_path, target_path) ==
    IF ~exists(f, wd, link_path) THEN TRUE
    ELSE differs(f, wd, read_link(f, wd, link_path), target_path)

\* An update that touches the filesystem under dry_run too.
apply_action_ignoring_dry_run(f, wd, target_path, symlink_path, dry_run) ==
    create_symlink(remove_file(f, wd, symlink_path).fs, wd, target_path, symlink_path)

\* the filesystem part of one loop iteration of update_symlinks: nothing
\* under dry_run, otherwise whatever is at symlink_path is removed (an error
\* of remove_file is dropped) and the link is created (an error is returned)
apply_action(f, wd, target_path, symlink_path, dry_run) ==
    IF dry_run THEN [ok |-> TRUE, fs |-> f]
    ELSE create_symlink(remove_file(f, wd, symlink_path).fs, wd, target_path, symlink_path)

\* the loop of update_symlinks over soname_map, whose iteration order is
\* arbitrary: the outcomes [ok, actions, fs] it may end with, ok = FALSE
\* being the Err of create_symlink (the actions are lost with it)
RECURSIVE reconcile(_, _, _, _, _, _)
reconcile(f, wd, soname_map, todo, dry_run, actions) ==
    IF todo = {} THEN {[ok |-> TRUE, actions |-> actions, fs |-> f]}
    ELSE UNION {
        LET best_lib == find_highest_version_library(soname_map[soname])
            filename == unwrap_or(file_name(best_lib.path), <<>>)
            symlink_path == join(parent(best_lib.path)[1], soname)
            rest == todo \ {soname}
        IN  IF filename # soname /\ should_create_symlink(f, wd, symlink_path, best_lib.path)
            THEN LET done == apply_action(f, wd, filename, symlink_path, dry_run)
                     action == [target |-> filename, link |-> symlink_path, action |-> "Create"]
                 IN  IF done.ok
                     THEN reconcile(done.fs, wd, soname_map, rest, dry_run, Append(actions, action))
                     ELSE {[ok |-> FALSE, actions |-> <<>>, fs |-> done.fs]}
            ELSE reconcile(f, wd, soname_map, rest, dry_run, actions)
        : soname \in todo}

\* update_symlinks (its first argument is not used)
update_symlinks(f, wd, libs, dry_run) ==
    LET real(lib) == ~is_symlink(f, wd, lib.path)
        sonames == {libs[i].soname : i \in {j \in DOMAIN libs : real(libs[j])}}
        of(soname) == LET named(lib) == real(lib) /\ lib.soname = soname
                      IN  SelectSeq(libs, named)
        soname_map == [soname \in sonames |-> of(soname)]
    IN  reconcile(f, wd, soname_map, sonames, dry_run, <<>>)

(***************************************************************************)
(* The builder, src/src/builder.rs.                                        *)
(***************************************************************************)
\* STEP 2 of scan_directories: one call of update_symlinks per directory,
\* the actions of the calls that return Ok collected; the outcomes
\* [actions, fs] the loop may end with
RECURSIVE update_each_dir(_, _, _, _, _)
update_each_dir(f, wd, dirs, real_files, actions) ==
    IF dirs = <<>> THEN {[actions |-> actions, fs |-> f]}
    ELSE UNION {update_each_dir(r.fs, wd, Tail(dirs), real_files,
                                IF r.ok THEN actions \o r.actions ELSE actions) :
                   r \in update_symlinks(f, wd, real_files, FALSE)}

\* Cache entries that take every real file, canonically named or not.
cache_entries_every_real_file(f, wd, real_files, existing_symlinks, new_symlink_actions) ==
    LET included(lib) == should_include_symlink(f, wd, unwrap_or(file_name(lib.path), <<>>),
                                                lib.soname, lib.path)
        described(action) == parse_elf_file(f, wd, action.link) # None
        new == SelectSeq(new_symlink_actions, described)
    IN  real_files
        \o SelectSeq(existing_symlinks, included)
        \o [i \in DOMAIN new |-> parse_elf_file(f, wd, new[i].link)[1]]

\* STEP 3 of scan_directories: the cache entries before deduplication
cache_entries(f, wd, real_files, existing_symlinks, new_symlink_actions) ==
    LET canonical(lib) == unwrap_or(file_name(lib.path), <<>>) = lib.soname
        included(lib) == should_include_symlink(f, wd, unwrap_or(file_name(lib.path), <<>>),
                                                lib.soname, lib.path)
        described(action) == parse_elf_file(f, wd, action.link) # None
        new == SelectSeq(new_symlink_actions, described)
    IN  SelectSeq(real_files, canonical)
        \o SelectSeq(existing_symlinks, included)
        \o [i \in DOMAIN new |-> parse_elf_file(f, wd, new[i].link)[1]]

\* CacheBuilder::scan_directories: the outcomes [ok, libraries, fs] it may end
\* with, ok = FALSE being the Err of scan_all_libraries
scan_directories(f, wd, config, opts) ==
    UNION {UNION {
        IF scanned = None THEN {[ok |-> FALSE, libraries |-> <<>>, fs |-> f]}
        ELSE UNION {
            {[ok |-> TRUE, libraries |-> unique_libraries, fs |-> updated.fs] :
                unique_libraries \in deduplicate_libraries(
                    cache_entries(updated.fs, wd, scanned[1].real_files,
                                  scanned[1].symlinks, updated.actions))}
            : updated \in IF opts.update_symlinks /\ ~opts.dry_run
                          THEN update_each_dir(f, wd, dirs, scanned[1].real_files, <<>>)
                          ELSE {[actions |-> <<>>, fs |-> f]}}
        : scanned \in scan_all_libraries(f, wd, dirs)}
        : dirs \in deduplicate_scan_directories(f, wd, config)}

(***************************************************************************)
(* The binary, src/src/bin/ldconfig.rs.                                    *)
(***************************************************************************)
\* should_scan_library of the binary: the name has an extension, and the
\* extension is "so" or the name contains ".so."
bin_should_scan_library(path) ==
    LET filename == file_name(path)
    IN  /\ is_some(filename)
        /\ \E i \in 2..Len(filename[1]) : filename[1][i] = 46
        /\ \/ ends_with(filename[1], <<46, 115, 111>>)
           \/ contains(filename[1], <<46, 115, 111, 46>>)

\* the names in dir that the binary's scan loops describe
bin_scan_candidates(f, wd, dir) ==
    {n \in children(f, wd, dir) :
        /\ is_file(f, wd, join(dir, n))
        /\ bin_should_scan_library(join(dir, n))
        /\ parse_elf_file(f, wd, join(dir, n)) # None}

\* should_include of scan_libraries and scan_hwcap_directories: the pattern
\* check for a symbolic link, filename == soname for a real file
should_include(f, wd, e) ==
    IF e.is_symlink
    THEN should_include_symlink(f, wd, unwrap_or(file_name(e.lib.path), <<>>),
                                e.lib.soname, e.lib.path)
    ELSE unwrap_or(file_name(e.lib.path), <<>>) = e.lib.soname

\* the descriptors pushed out of the entries of one directory pass
pushed(f, wd, es) ==
    LET keep(e) == should_include(f, wd, e)
        kept == SelectSeq(es, keep)
    IN  [i \in DOMAIN kept |-> kept[i].lib]

\* scan_libraries, when no read_dir fails: the lists it may return
RECURSIVE scan_libraries(_, _, _)
scan_libraries(f, wd, dirs) ==
    IF dirs = <<>> THEN {<<>>}
    ELSE IF ~exists(f, wd, dirs[1]) THEN scan_libraries(f, wd, Tail(dirs))
    ELSE {pushed(f, wd, a) \o b :
             a \in scan_entries(f, wd, dirs[1], None, bin_scan_candidates(f, wd, dirs[1])),
             b \in scan_libraries(f, wd, Tail(dirs))}

\* the loop of scan_hwcap_directories over the tier subdirectories of one
\* directory
RECURSIVE bin_scan_hwcap_dirs(_, _, _)
bin_scan_hwcap_dirs(f, wd, hwcap_dirs) ==
    IF hwcap_dirs = <<>> THEN {<<>>}
    ELSE {pushed(f, wd, a) \o b :
             a \in scan_entries(f, wd, hwcap_dirs[1][1], Some(hwcap_dirs[1][2]),
                                bin_scan_candidates(f, wd, hwcap_dirs[1][1])),
             b \in bin_scan_hwcap_dirs(f, wd, Tail(hwcap_dirs))}

\* scan_hwcap_directories, when no read_dir fails: the lists it may return
RECURSIVE scan_hwcap_directories(_, _, _)
scan_hwcap_directories(f, wd, dirs) ==
    IF dirs = <<>> THEN {<<>>}
    ELSE IF ~exists(f, wd, dirs[1]) THEN scan_hwcap_directories(f, wd, Tail(dirs))
    ELSE UNION {{t \o b : t \in bin_scan_hwcap_dirs(f, wd, hwcap_dirs),
                           b \in scan_hwcap_directories(f, wd, Tail(dirs))} :
                   hwcap_dirs \in detect_hwcap_dirs(f, wd, dirs[1])}

\* main up to build_cache: the outcomes [ok, scan_dirs, libraries, cache] it
\* may reach, ok = FALSE being the Err of scan_libraries or of
\* scan_hwcap_directories (a read_dir that fails)
main_build_cache(f, wd, config_directories, pfx) ==
    UNION {
        IF \E i \in DOMAIN dirs : exists(f, wd, dirs[i]) /\ scan_dir_fails(f, wd, dirs[i])
        THEN {[ok |-> FALSE, scan_dirs |-> dirs, libraries |-> <<>>, cache |-> <<>>]}
        ELSE UNION {UNION {
            {[ok |-> TRUE, scan_dirs |-> dirs, libraries |-> base \o hwcap_libraries,
              cache |-> build_cache(f, wd, unique_libraries, pfx)] :
                unique_libraries \in deduplicate_libraries(base \o hwcap_libraries)}
            : hwcap_libraries \in scan_hwcap_directories(f, wd, dirs)}
            : base \in scan_libraries(f, wd, dirs)}
        : dirs \in deduplicate_scan_directories(f, wd, config_directories)}

\* the loop of main over scan_dirs: one call of update_symlinks per
\* directory, an Err dropped; the outcomes [fs, runs] it may end with
RECURSIVE main_update_symlinks(_, _, _, _, _)
main_update_symlinks(f, wd, dirs, libs, rs) ==
    IF dirs = <<>> THEN {[fs |-> f, runs |-> rs]}
    ELSE UNION {main_update_symlinks(r.fs, wd, Tail(dirs), libs,
                    Append(rs, [dry_run |-> FALSE, ok |-> r.ok, actions |-> r.actions,
                                before |-> f, after |-> r.fs, libs |-> libs])) :
                   r \in update_symlinks(f, wd, libs, FALSE)}

(***************************************************************************)
(* Names used by the examples of the comparator.                           *)
(***************************************************************************)
\* "libfoo.so"
libfoo_so == <<108, 105, 98, 102, 111, 111, 46, 115, 111>>
\* "libfoo.so.1"
libfoo_so_1 == <<108, 105, 98, 102, 111, 111, 46, 115, 111, 46, 49>>
\* "libfoo.so.2"
libfoo_so_2 == <<108, 105, 98, 102, 111, 111, 46, 115, 111, 46, 50>>
\* "libfoo.so.9"
libfoo_so_9 == <<108, 105, 98, 102, 111, 111, 46, 115, 111, 46, 57>>
\* "libfoo.so.10"
libfoo_so_10 == <<108, 105, 98, 102, 111, 111, 46, 115, 111, 46, 49, 48>>
\* "libfoo.so.1.2"
libfoo_so_1_2 == <<108, 105, 98, 102, 111, 111, 46, 115, 111, 46, 49, 46, 50>>
\* "libfoo.so.1.10"
libfoo_so_1_10 == <<108, 105, 98, 102, 111, 111, 46, 115, 111, 46, 49, 46, 49, 48>>

\* the characters '.', '0', '1', 'a'
CmpAlphabet == {46, 48, 49, 97}

ExampleNames ==
    {libfoo_so, libfoo_so_1, libfoo_so_9, libfoo_so_10, libfoo_so_1_2, libfoo_so_1_10}

CmpNames == StringsUpTo(CmpAlphabet, MaxNameLen) \cup ExampleNames

(***************************************************************************)
(* Specification of the comparator alone: any two names, one call.         *)
(***************************************************************************)
\* the variables of the codec, unused
CodecIdle ==
    /\ libraries = <<>> /\ prefix = None /\ cache = <<>> /\ data = <<>>
    /\ parsed = "none" /\ codec_pc = "idle"

\* the variables of the comparator, unused
CmpIdle == cmp_a = <<>> /\ cmp_b = <<>> /\ cmp_out = "idle"

\* the variables of scanner, reconciler and builder, unused
ScanIdle ==
    /\ fs0 = fs /\ directories = <<>> /\ options = [update_symlinks |-> FALSE, dry_run |-> TRUE]
    /\ scan_result = None /\ runs = <<>> /\ scan_pc = "idle"

\* the variables of the deduplicator, unused
DedupIdle == dedup_in = <<>> /\ dedup_out = <<>> /\ dedup_pc = "idle"

\* the variables of the writer, unused
WriterIdle == dest = None /\ durable = None /\ writer_pc = "idle"

CmpInit ==
    /\ cmp_a \in CmpNames
    /\ cmp_b \in CmpNames
    /\ cmp_out = "none"
    /\ fs = <<>> /\ cwd = <<47>>
    /\ CodecIdle
    /\ ScanIdle
    /\ DedupIdle
    /\ WriterIdle

Compare ==
    /\ cmp_out = "none"
    /\ cmp_out' = compare_library_versions(cmp_a, cmp_b)
    /\ UNCHANGED <<cmp_a, cmp_b, fs_vars, codec_vars, scan_vars, dedup_vars, writer_vars>>

CmpNext == Compare

SpecCmp == CmpInit /\ [][CmpNext]_vars

(***************************************************************************)
(* Specification of the codec: build_cache over a descriptor list, then    *)
(* parse_cache over the bytes built, or over a damaged copy of them.       *)
(***************************************************************************)
\* "/a", "/a/haswell", "/s" (a symbolic link to /a), "/n" (does not exist)
dir_a == <<47, 97>>
dir_a_haswell == <<47, 97, 47, 104, 97, 115, 119, 101, 108, 108>>
dir_s == <<47, 115>>
dir_n == <<47, 110>>
\* "libbar.so.1"
libbar_so_1 == <<108, 105, 98, 98, 97, 114, 46, 115, 111, 46, 49>>

\* "/a/a"
dir_a_a == <<47, 97, 47, 97>>

CodecFs == (dir_a :> Dir) @@ (dir_a_haswell :> Dir) @@ (dir_s :> Link(dir_a)) @@ (dir_a_a :> Dir)

\* a descriptor (ElfLibrary)
ElfLibrary(soname, path, arch, is_64bit, is_hardfloat, hwcap) ==
    [soname |-> soname, path |-> path, is_64bit |-> is_64bit, arch |-> arch,
     is_hardfloat |-> is_hardfloat, osversion |-> 0, hwcap |-> hwcap]

CodecPool ==
    { ElfLibrary(libfoo_so_2, join(dir_a, libfoo_so_2), "X86_64", TRUE, FALSE, None),
      ElfLibrary(libfoo_so_2, join(dir_a, libfoo_so), "X86_64", TRUE, FALSE, None),
      ElfLibrary(libfoo_so_2, join(dir_a_haswell, libfoo_so_2), "X86_64", TRUE, FALSE, Some(2)),
      ElfLibrary(libfoo_so_2, join(dir_s, libfoo_so_2), "ARM", FALSE, TRUE, None),
      ElfLibrary(libbar_so_1, join(dir_n, libbar_so_1), "AArch64", TRUE, FALSE, None),
      ElfLibrary(libbar_so_1, join(dir_a_a, libbar_so_1), "X86_64", TRUE, FALSE, None) }

\* the lists of at most n elements of S
ListsUpTo(S, n) == UNION {[1..k -> S] : k \in 0..n}

CodecInit ==
    /\ fs = CodecFs
    /\ cwd = <<47>>
    /\ libraries \in ListsUpTo(CodecPool, MaxLibs)
    /\ prefix \in {None, Some(dir_a), Some(<<47>>)}
    /\ cache = <<>>
    /\ data = <<>>
    /\ parsed = "none"
    /\ codec_pc = "start"
    /\ CmpIdle
    /\ ScanIdle
    /\ DedupIdle
    /\ WriterIdle

BuildCache ==
    /\ codec_pc = "start"
    /\ cache' = build_cache(fs, cwd, libraries, prefix)
    /\ codec_pc' = "built"
    /\ UNCHANGED <<libraries, prefix, data, parsed, fs_vars, cmp_vars, scan_vars, dedup_vars, writer_vars>>

\* the caller hands the bytes built to parse_cache
GiveBuilt ==
    /\ codec_pc = "built"
    /\ data' = cache
    /\ codec_pc' = "input"
    /\ UNCHANGED <<libraries, prefix, cache, parsed, fs_vars, cmp_vars, scan_vars, dedup_vars, writer_vars>>

\* lengths at which a cache file may be cut short: inside the header, inside
\* the entries, before the string table, before the last byte
CutPoints(c) ==
    LET nlibs == from_le_bytes(slice(c, 20, 24))
    IN  {n \in {0, 19, 27, 35, 47, 48 + nlibs * 24 - 1, 48 + nlibs * 24, Len(c) - 1} :
            n < Len(c)}

\* the caller hands a truncated cache file to parse_cache
GiveTruncated ==
    /\ codec_pc = "built"
    /\ \E n \in CutPoints(cache) : data' = SubSeq(cache, 1, n)
    /\ codec_pc' = "input"
    /\ UNCHANGED <<libraries, prefix, cache, parsed, fs_vars, cmp_vars, scan_vars, dedup_vars, writer_vars>>

\* the caller hands over a cache file whose nlibs field announces more
\* entries than the file holds
GiveInflated ==
    /\ codec_pc = "built"
    /\ LET nlibs == from_le_bytes(slice(cache, 20, 24))
       IN  data' = slice(cache, 0, 20)
                   \o to_le_bytes(nlibs + Len(cache) \div 24 + 1, 4)
                   \o slice(cache, 24, Len(cache))
    /\ codec_pc' = "input"
    /\ UNCHANGED <<libraries, prefix, cache, parsed, fs_vars, cmp_vars, scan_vars, dedup_vars, writer_vars>>

ParseCache ==
    /\ codec_pc = "input"
    /\ parsed' = parse_cache(data)
    /\ codec_pc' = "parsed"
    /\ UNCHANGED <<libraries, prefix, cache, data, fs_vars, cmp_vars, scan_vars, dedup_vars, writer_vars>>

CodecNext == BuildCache \/ GiveBuilt \/ GiveTruncated \/ GiveInflated \/ ParseCache

SpecCodec == CodecInit /\ [][CodecNext]_vars

(***************************************************************************)
(* Specification of the deduplicator: one call of deduplicate_libraries or *)
(* of deduplicate_scan_directories over a list.                            *)
(***************************************************************************)
\* longest directory list given to deduplicate_scan_directories
MaxDirs == 3

\* "a", a relative path
rel_a == <<97>>

\* the descriptors of CodecPool and a second descriptor of /a/libfoo.so.2, as
\* the tier pass of a scan makes one
DedupPool ==
    CodecPool \cup
    { ElfLibrary(libfoo_so_2, join(dir_a, libfoo_so_2), "X86_64", TRUE, FALSE, Some(1)) }

\* directories: /a, its tier directory, the link /s to /a, the missing /n,
\* and the relative a
DedupDirs == {dir_a, dir_a_haswell, dir_s, dir_n, rel_a}

DedupInit ==
    /\ fs = CodecFs
    /\ cwd \in {<<47>>, dir_a}
    /\ dedup_pc \in {"libraries", "directories"}
    /\ dedup_in \in IF dedup_pc = "libraries" THEN ListsUpTo(DedupPool, MaxLibs)
                                               ELSE ListsUpTo(DedupDirs, MaxDirs)
    /\ dedup_out = <<>>
    /\ CmpIdle
    /\ CodecIdle
    /\ ScanIdle
    /\ WriterIdle

DeduplicateLibraries ==
    /\ dedup_pc = "libraries"
    /\ dedup_out' \in deduplicate_libraries(dedup_in)
    /\ dedup_pc' = "unique_libraries"
    /\ UNCHANGED <<dedup_in, fs_vars, cmp_vars, codec_vars, scan_vars, writer_vars>>

DeduplicateScanDirectories ==
    /\ dedup_pc = "directories"
    /\ dedup_out' \in deduplicate_scan_directories(fs, cwd, dedup_in)
    /\ dedup_pc' = "unique_directories"
    /\ UNCHANGED <<dedup_in, fs_vars, cmp_vars, codec_vars, scan_vars, writer_vars>>

DedupNext == DeduplicateLibraries \/ DeduplicateScanDirectories

SpecDedup == DedupInit /\ [][DedupNext]_vars

(***************************************************************************)
(* Specification of the writer, src/src/writer.rs: one call of             *)
(* Cache::write_to_file, one step per call it makes to the operating       *)
(* system.  Every such call may fail; `?` then returns the error.          *)
(***************************************************************************)
\* the cache the destination holds before the call, when it holds one
OldCache == build_cache(CodecFs, <<47>>, <<ElfLibrary(libbar_so_1, join(dir_a, libbar_so_1),
                                                      "X86_64", TRUE, FALSE, None)>>, None)

WriterInit ==
    /\ fs = CodecFs
    /\ cwd = <<47>>
    /\ libraries \in ListsUpTo(CodecPool, MaxLibs)
    /\ prefix = None
    /\ cache = build_cache(fs, cwd, libraries, prefix)
    /\ data = <<>>
    /\ parsed = "none"
    /\ codec_pc = "built"
    /\ dest \in {None, Some(OldCache)}
    /\ durable = dest
    /\ writer_pc = "create_dir_all"
    /\ CmpIdle
    /\ ScanIdle
    /\ DedupIdle

\* fs::create_dir_all(parent)?
CreateDirAll ==
    /\ writer_pc = "create_dir_all"
    /\ writer_pc' \in {"create", "Err"}
    /\ UNCHANGED <<dest, durable, fs_vars, cmp_vars, codec_vars, scan_vars, dedup_vars>>

\* fs::File::create(path)?: the file is created, or truncated if it is there
Create ==
    /\ writer_pc = "create"
    /\ \/ dest' = Some(<<>>) /\ writer_pc' = "write_all"
       \/ dest' = dest /\ writer_pc' = "Err"
    /\ UNCHANGED <<durable, fs_vars, cmp_vars, codec_vars, scan_vars, dedup_vars>>

\* the numbers of bytes one write call may take of the rest bytes left
ChunkSizes(rest) == {rest, (rest + 1) \div 2}

\* file.write_all(&self.data)?: one write call of its loop, which goes on
\* until every byte is taken
WriteAll ==
    /\ writer_pc = "write_all"
    /\ \/ \E n \in ChunkSizes(Len(cache) - Len(dest[1])) :
             /\ dest' = Some(SubSeq(cache, 1, Len(dest[1]) + n))
             /\ writer_pc' = IF Len(dest[1]) + n = Len(cache) THEN "flush" ELSE "write_all"
       \/ dest' = dest /\ writer_pc' = "Err"
    /\ UNCHANGED <<durable, fs_vars, cmp_vars, codec_vars, scan_vars, dedup_vars>>

\* file.flush()?: a File has no buffer of its own
Flush ==
    /\ writer_pc = "flush"
    /\ writer_pc' \in {"sync_all", "Err"}
    /\ UNCHANGED <<dest, durable, fs_vars, cmp_vars, codec_vars, scan_vars, dedup_vars>>

\* file.sync_all()?; Ok(())
SyncAll ==
    /\ writer_pc = "sync_all"
    /\ \/ durable' = dest /\ writer_pc' = "Ok"
       \/ durable' = durable /\ writer_pc' = "Err"
    /\ UNCHANGED <<dest, fs_vars, cmp_vars, codec_vars, scan_vars, dedup_vars>>

WriterNext == CreateDirAll \/ Create \/ WriteAll \/ Flush \/ SyncAll

SpecWriter == WriterInit /\ [][WriterNext]_vars

(***************************************************************************)
(* Claims about the codec.                                                 *)
(***************************************************************************)
\* parse_cache has returned for the very bytes build_cache produced
ParsedBuilt == codec_pc = "parsed" /\ data = cache

\* descriptor j precedes descriptor i in (filename descending, bitmask descending)
Precedes(libs, j, i) ==
    LET o == str_cmp(lib_filename(libs[j]), lib_filename(libs[i]))
    IN  \/ o = "Greater"
        \/ o = "Equal" /\ unwrap_or(libs[j].hwcap, 0) > unwrap_or(libs[i].hwcap, 0)

SameKey(libs, j, i) ==
    /\ lib_filename(libs[j]) = lib_filename(libs[i])
    /\ unwrap_or(libs[j].hwcap, 0) = unwrap_or(libs[i].hwcap, 0)

\* the place of descriptor i in the sort order: after everything that
\* precedes it and after the earlier descriptors with the same key
Rank(libs, i) ==
    1 + Cardinality({j \in 1..Len(libs) : Precedes(libs, j, i)})
      + Cardinality({j \in 1..(i - 1) : SameKey(libs, j, i)})

\* C1: parse_cache(build_cache(list, no prefix)) succeeds with len(list)
\* entries, and the entry at each descriptor's place in the sort order
\* resolves to that descriptor's (filename, stored path, flags, hwcap or 0).
C1_RoundTrip ==
    (ParsedBuilt /\ prefix = None) =>
        /\ parsed.outcome = "ok"
        /\ Len(parsed.entries) = Len(libraries)
        /\ parsed.header.nlibs = Len(libraries)
        /\ \A i \in 1..Len(libraries) :
              LET lib == libraries[i]
                  e == parsed.entries[Rank(libraries, i)]
              IN  /\ cstr_at(cache, e.key_offset) = lib_filename(lib)
                  /\ cstr_at(cache, e.value_offset) = path_to_add(fs, cwd, lib, None)
                  /\ e.flags = arch_to_flags(lib.arch, lib.is_64bit, lib.is_hardfloat)
                  /\ e.hwcap = unwrap_or(lib.hwcap, 0)

\* a list of three descriptors, given out of order, went through build and parse
C1_Witness ==
    /\ ParsedBuilt /\ prefix = None /\ parsed.outcome = "ok"
    /\ Len(libraries) = 3
    /\ Rank(libraries, 1) = 3
    /\ \E i \in 1..3 : libraries[i].hwcap # None

\* the filename an entry of the parsed cache resolves to
EntryName(i) == cstr_at(cache, parsed.entries[i].key_offset)

\* C2: consecutive entries of a built cache are non-increasing in
\* (filename, bitmask): the later filename is never the greater one, and
\* on equal filenames the later bitmask is never the greater one;
\* libfoo.so.2 comes before libfoo.so.
C2_SortInvariant ==
    ParsedBuilt =>
        /\ \A i \in 1..(Len(parsed.entries) - 1) :
              /\ str_cmp(EntryName(i), EntryName(i + 1)) # "Less"
              /\ EntryName(i) = EntryName(i + 1) =>
                     parsed.entries[i].hwcap >= parsed.entries[i + 1].hwcap
        /\ \A i, j \in 1..Len(parsed.entries) :
              (EntryName(i) = libfoo_so_2 /\ EntryName(j) = libfoo_so) => i < j

\* libfoo.so was listed before libfoo.so.2, and a lower bitmask before a higher one
C2_Witness ==
    /\ ParsedBuilt
    /\ Len(libraries) = 3
    /\ lib_filename(libraries[1]) = libfoo_so
    /\ lib_filename(libraries[2]) = libfoo_so_2 /\ libraries[2].hwcap = None
    /\ lib_filename(libraries[3]) = libfoo_so_2 /\ libraries[3].hwcap = Some(2)

\* C5: parse_cache never panics, whatever bytes it is given.
C5_NeverPanics == codec_pc = "parsed" => parsed.outcome # "panic"

\* offset is where a NUL-terminated string of the table [lo, hi) starts
StartsString(d, lo, hi, offset) ==
    /\ offset = lo \/ d[offset] = 0
    /\ \E k \in offset..(hi - 1) : d[k + 1] = 0

\* C8: every key_offset and value_offset of a parsed build lies in
\* [48 + 24 * nlibs, 48 + 24 * nlibs + len_strings) and is the first byte of
\* a NUL-terminated string of the table.
C8_OffsetValidity ==
    ParsedBuilt =>
        LET lo == 48 + 24 * parsed.header.nlibs
            hi == lo + parsed.header.len_strings
        IN  \A i \in 1..Len(parsed.entries) :
               \A offset \in {parsed.entries[i].key_offset, parsed.entries[i].value_offset} :
                  /\ lo <= offset /\ offset < hi
                  /\ StartsString(cache, lo, hi, offset)

\* a parsed build of three entries, one of them reusing an earlier string
C8_Witness ==
    /\ ParsedBuilt /\ parsed.outcome = "ok"
    /\ Len(parsed.entries) = 3
    /\ parsed.entries[3].key_offset = parsed.entries[1].key_offset
    /\ parsed.entries[3].value_offset > parsed.entries[2].value_offset

\* the string table of the built cache, and its NUL-terminated items
TableBytes ==
    slice(cache, 48 + 24 * parsed.header.nlibs,
          48 + 24 * parsed.header.nlibs + parsed.header.len_strings)

RECURSIVE SumLen(_)
SumLen(items) == IF items = <<>> THEN 0 ELSE Len(items[1]) + 1 + SumLen(Tail(items))

\* C9: the string table holds each distinct filename or stored path exactly
\* once as a NUL-terminated item and nothing else, and entries that refer
\* to the same string carry the same offset, that of its only occurrence.
C9_Interning ==
    ParsedBuilt =>
        LET items == split_strings(TableBytes, 1, 1)
            wanted == {lib_filename(libraries[i]) : i \in 1..Len(libraries)}
                      \cup {path_to_add(fs, cwd, libraries[i], prefix) : i \in 1..Len(libraries)}
            offsets == {parsed.entries[i].key_offset : i \in 1..Len(parsed.entries)}
                       \cup {parsed.entries[i].value_offset : i \in 1..Len(parsed.entries)}
        IN  /\ \A i, j \in 1..Len(items) : items[i] = items[j] => i = j
            /\ {items[i] : i \in 1..Len(items)} = wanted
            /\ SumLen(items) = Len(TableBytes)
            /\ \A o1, o2 \in offsets : cstr_at(cache, o1) = cstr_at(cache, o2) => o1 = o2

\* /a/libfoo.so.2 and /s/libfoo.so.2 (/s links to /a) share one stored path
C9_Witness ==
    /\ ParsedBuilt /\ prefix = None
    /\ \E i, j \in 1..Len(libraries) :
          /\ libraries[i].path = join(dir_a, libfoo_so_2)
          /\ libraries[j].path = join(dir_s, libfoo_so_2)
          /\ parsed.entries[Rank(libraries, i)].value_offset
               = parsed.entries[Rank(libraries, j)].value_offset

\* the bytes a set of strings takes when each is stored once with its NUL
RECURSIVE InternedLength(_)
InternedLength(S) ==
    IF S = {} THEN 0
    ELSE LET x == CHOOSE x \in S : TRUE
         IN  Len(x) + 1 + InternedLength(S \ {x})

\* the strings a build interns: every filename and every stored path
Interned ==
    {lib_filename(libraries[i]) : i \in 1..Len(libraries)}
    \cup {path_to_add(fs, cwd, libraries[i], prefix) : i \in 1..Len(libraries)}

\* the smallest multiple of 4 that is at least x
AlignUp4(x) == CHOOSE e \in x..(x + 3) : e % 4 = 0

\* the extension offset a build of the current list must carry
ExpectedExtension == AlignUp4(48 + 24 * Len(libraries) + InternedLength(Interned))

\* four bytes of the built cache at a 0-based offset, as a number
U32At(offset) == from_le_bytes(slice(cache, offset, offset + 4))

\* C28: in a built cache of n descriptors with a string table of L bytes the
\* header carries n, L and the extension offset E, the smallest multiple of
\* 4 that is at least 48 + 24 * n + L; at E are the magic 0xEAA42174, the
\* subsection count 1 and one descriptor (tag 0, flags 0, data offset E + 24,
\* length of the generator string), then the generator string and a zero
\* byte; parse_cache returns that generator string.
C28_HeaderAndExtension ==
    ParsedBuilt =>
        /\ parsed.outcome = "ok"
        /\ parsed.header.nlibs = Len(libraries)
        /\ parsed.header.len_strings = InternedLength(Interned)
        /\ U32At(32) = ExpectedExtension
        /\ slice(cache, ExpectedExtension, ExpectedExtension + 4) = EXTENSION_MAGIC_le
        /\ U32At(ExpectedExtension + 4) = 1
        /\ U32At(ExpectedExtension + 8) = 0
        /\ U32At(ExpectedExtension + 12) = 0
        /\ U32At(ExpectedExtension + 16) = ExpectedExtension + 24
        /\ U32At(ExpectedExtension + 20) = Len(generator_bytes)
        /\ slice(cache, ExpectedExtension + 24, Len(cache)) = generator_bytes \o <<0>>
        /\ parsed.generator = Some(generator_bytes)

\* a cache of two or more entries was built and parsed whose string table
\* does not end on a multiple of 4, so that padding was written
C28_Witness ==
    /\ ParsedBuilt /\ parsed.outcome = "ok"
    /\ Len(libraries) >= 2
    /\ (48 + 24 * Len(libraries) + InternedLength(Interned)) % 4 # 0
    /\ parsed.generator = Some(generator_bytes)

\* the canonical parent directory of a descriptor's path joined with its
\* filename
CanonicalPath(lib) ==
    LET dir == unwrap_or(parent(lib.path), <<>>)
    IN  join(unwrap_or(canonicalize(fs, cwd, dir), dir), lib_filename(lib))

\* the canonical root prefix
CanonicalPrefix == unwrap_or(canonicalize(fs, cwd, prefix[1]), prefix[1])

\* the path stored in the parsed cache for descriptor i of the list
StoredPath(i) == cstr_at(cache, parsed.entries[Rank(libraries, i)].value_offset)

\* stored names, with the prefix as root, the file at path: the prefix
\* followed by stored spells path
UnderPrefix(stored, path) ==
    /\ stored # <<>> /\ stored[1] = 47
    /\ IF CanonicalPrefix = <<47>> THEN stored = path
       ELSE CanonicalPrefix \o stored = path

\* path is, or is below, base
Below(path, base) == path = base \/ starts_with(path, base \o <<47>>)

\* C29 as stated: with a root prefix P every stored path is the canonical
\* path rewritten relative to P with a leading '/', and none starts with P
\* when P is not '/'; with no prefix it is the canonical path.
C29_Original ==
    ParsedBuilt =>
        \A i \in DOMAIN libraries :
            IF prefix = None THEN StoredPath(i) = CanonicalPath(libraries[i])
            ELSE /\ UnderPrefix(StoredPath(i), CanonicalPath(libraries[i]))
                 /\ CanonicalPrefix # <<47>> => ~Below(StoredPath(i), CanonicalPrefix)

\* C29 (as amended): with a root prefix P, the path stored for a descriptor
\* whose canonical path is below canonical P is that path rewritten relative
\* to P with a leading '/', the path the file has once P is the root; for a
\* descriptor whose canonical path is not below P the canonical path is
\* stored as it is; with no prefix the canonical path is stored.
C29_PrefixRewriting ==
    ParsedBuilt =>
        \A i \in DOMAIN libraries :
            IF prefix = None THEN StoredPath(i) = CanonicalPath(libraries[i])
            ELSE IF CanonicalPrefix = <<47>> \/ Below(CanonicalPath(libraries[i]), CanonicalPrefix)
                 THEN UnderPrefix(StoredPath(i), CanonicalPath(libraries[i]))
                 ELSE StoredPath(i) = CanonicalPath(libraries[i])

\* a cache built with the prefix /a stores /libfoo.so.2 for a file reached
\* through the link /s, /a/libbar.so.1 for the file in /a/a, and the
\* unchanged path for the file in /n
C29_Witness ==
    /\ ParsedBuilt /\ prefix = Some(dir_a)
    /\ \E i, j, k \in DOMAIN libraries :
          /\ libraries[i].path = join(dir_s, libfoo_so_2)
          /\ StoredPath(i) = <<47>> \o libfoo_so_2
          /\ libraries[j].path = join(dir_a_a, libbar_so_1)
          /\ StoredPath(j) = join(dir_a, libbar_so_1)
          /\ libraries[k].path = join(dir_n, libbar_so_1)
          /\ StoredPath(k) = join(dir_n, libbar_so_1)

(***************************************************************************)
(* C7: the comparator against the token-wise order it is said to compute.  *)
(***************************************************************************)
\* The tokens of a name: each maximal run of decimal digits is one token
\* carrying its numeric value and its first character, every other
\* character is a token of its own.
RECURSIVE Tokens(_, _)
Tokens(s, i) ==
    IF i > Len(s) THEN <<>>
    ELSE IF is_ascii_digit(s[i])
         THEN LET j == CHOOSE k \in i..Len(s) :
                         /\ \A m \in i..k : is_ascii_digit(s[m])
                         /\ (k = Len(s) \/ ~is_ascii_digit(s[k + 1]))
                  RECURSIVE Value(_, _)
                  Value(m, acc) == IF m > j THEN acc ELSE Value(m + 1, acc * 10 + (s[m] - 48))
              IN  <<[digits |-> TRUE, val |-> Value(i, 0), first |-> s[i]]>> \o Tokens(s, j + 1)
         ELSE <<[digits |-> FALSE, val |-> s[i], first |-> s[i]]>> \o Tokens(s, i + 1)

\* Left to right over the tokens: two digit runs by value, anything else
\* by code point; the name whose tokens run out first is lower.
RECURSIVE TokenOrder(_, _, _)
TokenOrder(ta, tb, k) ==
    IF k > Len(ta) /\ k > Len(tb) THEN "Equal"
    ELSE IF k > Len(ta) THEN "Less"
    ELSE IF k > Len(tb) THEN "Greater"
    ELSE IF ta[k].digits /\ tb[k].digits
         THEN IF ta[k].val # tb[k].val
              THEN cmp_int(ta[k].val, tb[k].val)
              ELSE TokenOrder(ta, tb, k + 1)
         ELSE IF ta[k].first # tb[k].first
              THEN cmp_int(ta[k].first, tb[k].first)
              ELSE TokenOrder(ta, tb, k + 1)

CmpDone == cmp_out # "none"

libfoo_so_2_0_0 == <<108, 105, 98, 102, 111, 111, 46, 115, 111, 46, 50, 46, 48, 46, 48>>
libfoo_so_2_1_0 == <<108, 105, 98, 102, 111, 111, 46, 115, 111, 46, 50, 46, 49, 46, 48>>
dir_a_sse == <<47, 97, 47, 115, 115, 101>>

\* "libbar.so.1.0", "libbad.so.1" .. "libbad.so.6"
libbar_so_1_0 == <<108, 105, 98, 98, 97, 114, 46, 115, 111, 46, 49, 46, 48>>
libbad_so_1 == <<108, 105, 98, 98, 97, 100, 46, 115, 111, 46, 49>>
libbad_so_2 == <<108, 105, 98, 98, 97, 100, 46, 115, 111, 46, 50>>
libbad_so_3 == <<108, 105, 98, 98, 97, 100, 46, 115, 111, 46, 51>>
libbad_so_4 == <<108, 105, 98, 98, 97, 100, 46, 115, 111, 46, 52>>
libbad_so_5 == <<108, 105, 98, 98, 97, 100, 46, 115, 111, 46, 53>>
libbad_so_6 == <<108, 105, 98, 98, 97, 100, 46, 115, 111, 46, 54>>

\* the ELF facts of a shared object for x86-64 declaring soname
GoodElf(soname) ==
    [et_dyn |-> TRUE, pt_dynamic |-> TRUE, dynamic |-> TRUE, soname |-> soname,
     machine |-> "X86_64", is_64 |-> TRUE, hard_float |-> FALSE]

\* files that are no libraries, by name: not an ELF file (or unreadable);
\* not ET_DYN; no PT_DYNAMIC segment; no dynamic section; an empty SONAME;
\* a machine the Extractor does not know
NotLibraries ==
    (libbad_so_1 :> File(None))
    @@ (libbad_so_2 :> File(Some([GoodElf(libbad_so_2) EXCEPT !.et_dyn = FALSE])))
    @@ (libbad_so_3 :> File(Some([GoodElf(libbad_so_3) EXCEPT !.pt_dynamic = FALSE])))
    @@ (libbad_so_4 :> File(Some([GoodElf(libbad_so_4) EXCEPT !.dynamic = FALSE])))
    @@ (libbad_so_5 :> File(Some([GoodElf(<<>>) EXCEPT !.machine = "X86_64"])))
    @@ (libbad_so_6 :> File(Some([GoodElf(libbad_so_6) EXCEPT !.machine = "S390"])))

\* "libfoo-1.so"
libfoo_dash_1_so == <<108, 105, 98, 102, 111, 111, 45, 49, 46, 115, 111>>

\* a shared object with a dynamic section declaring soname
SharedObject(soname, machine) ==
    File(Some([et_dyn |-> TRUE, pt_dynamic |-> TRUE, dynamic |-> TRUE, soname |-> soname,
               machine |-> machine, is_64 |-> TRUE, hard_float |-> FALSE]))

\* the filesystems a behaviour may start from: /a is a directory and /s a
\* symbolic link to it; under /a there are
\*   nothing;
\*   libfoo.so.2.0.0 alone;
\*   two versions of libfoo.so.2;
\*   both versions and the link libfoo.so.2 to the older one;
\*   libfoo.so.2.0.0 and the link libfoo.so.2 to it;
\*   libfoo.so.2.0.0 and a directory named libfoo.so.2;
\*   libfoo.so.2.0.0, its link libfoo.so.2 and the bare link libfoo.so;
\*   libfoo.so.2.0.0 and the tier directories haswell (libfoo.so.2) and sse
\*   (libbar.so.1), the libraries being for x86-64;
\*   the tier directory haswell with libfoo.so.2 for AArch64;
\*   libfoo.so.2.0.0, a directory named libfoo.so.2, and libbar.so.1.0;
\*   libfoo.so.2.0.0 and the six files of NotLibraries;
\*   libfoo.so.2.0.0 and a regular file libfoo.so.2 declaring libfoo.so.2 too;
\*   libfoo.so.2.0.0 and the link libfoo.so.2 to it with an absolute target;
\*   libfoo.so.2.0.0 and a tier directory haswell that may not be listed;
\*   libfoo-1.so alone, declaring libfoo.so;
\*   libfoo.so.9 and libfoo.so.10, each named after its declared name;
\*   libfoo.so.2 in /a and, /n being a directory here, libfoo.so.2 in /n;
\*   libfoo.so.2.0.0 in /a and libfoo.so.2.1.0 in the directory /n;
\*   libbar.so.1 alone, for 64-bit PowerPC;
\*   the tier directories haswell and x86-64-v3, each with libfoo.so.2
InitialFs ==
    LET base == (dir_a :> Dir) @@ (dir_s :> Link(dir_a))
        v2_0_0 == join(dir_a, libfoo_so_2_0_0) :> SharedObject(libfoo_so_2, "X86_64")
        v2_1_0 == join(dir_a, libfoo_so_2_1_0) :> SharedObject(libfoo_so_2, "X86_64")
        link_2 == join(dir_a, libfoo_so_2) :> Link(libfoo_so_2_0_0)
        tier_haswell(m) == (dir_a_haswell :> Dir)
                           @@ (join(dir_a_haswell, libfoo_so_2) :> SharedObject(libfoo_so_2, m))
        tier_sse == (dir_a_sse :> Dir)
                    @@ (join(dir_a_sse, libbar_so_1) :> SharedObject(libbar_so_1, "X86_64"))
        bad == [q \in {join(dir_a, n) : n \in DOMAIN NotLibraries} |->
                   NotLibraries[file_name(q)[1]]]
    IN  { base,
          base @@ v2_0_0,
          base @@ v2_0_0 @@ v2_1_0,
          base @@ v2_0_0 @@ v2_1_0 @@ link_2,
          base @@ v2_0_0 @@ link_2,
          base @@ v2_0_0 @@ (join(dir_a, libfoo_so_2) :> Dir),
          base @@ v2_0_0 @@ link_2 @@ (join(dir_a, libfoo_so) :> Link(libfoo_so_2)),
          base @@ v2_0_0 @@ tier_haswell("X86_64") @@ tier_sse,
          base @@ tier_haswell("AArch64"),
          base @@ v2_0_0 @@ (join(dir_a, libfoo_so_2) :> Dir)
               @@ (join(dir_a, libbar_so_1_0) :> SharedObject(libbar_so_1, "X86_64")),
          base @@ v2_0_0 @@ bad,
          base @@ v2_0_0 @@ (join(dir_a, libfoo_so_2) :> SharedObject(libfoo_so_2, "X86_64")),
          base @@ v2_0_0 @@ (join(dir_a, libfoo_so_2) :> Link(join(dir_a, libfoo_so_2_0_0))),
          base @@ v2_0_0 @@ (dir_a_haswell :> UnlistableDir),
          base @@ (join(dir_a, libfoo_dash_1_so) :> SharedObject(libfoo_so, "X86_64")),
          base @@ (join(dir_a, libfoo_so_9) :> SharedObject(libfoo_so_9, "X86_64"))
               @@ (join(dir_a, libfoo_so_10) :> SharedObject(libfoo_so_10, "X86_64")),
          base @@ (join(dir_a, libfoo_so_2) :> SharedObject(libfoo_so_2, "X86_64"))
               @@ (dir_n :> Dir)
               @@ (join(dir_n, libfoo_so_2) :> SharedObject(libfoo_so_2, "X86_64")),
          base @@ v2_0_0 @@ (dir_n :> Dir)
               @@ (join(dir_n, libfoo_so_2_1_0) :> SharedObject(libfoo_so_2, "X86_64")),
          base @@ (join(dir_a, libbar_so_1) :> SharedObject(libbar_so_1, "PowerPC64")),
          base @@ tier_haswell("X86_64") @@ (join(dir_a, x86_64_v3) :> Dir)
               @@ (join(join(dir_a, x86_64_v3), libfoo_so_2) :> SharedObject(libfoo_so_2, "X86_64")) }

\* the search directory lists: /a; the link /s and /a; /a and its tier
\* directory; a missing directory and a path that may name a regular file; a
\* missing directory and /a
InitialDirectories ==
    {<<dir_a>>, <<dir_s, dir_a>>, <<dir_a, dir_a_haswell>>,
     <<dir_n, join(dir_a, libfoo_so_2_0_0)>>, <<dir_n, dir_a>>}

ScanInit ==
    /\ fs \in InitialFs
    /\ fs0 = fs
    /\ cwd \in {<<47>>, dir_a}
    /\ directories \in InitialDirectories
    /\ scan_pc \in {"api", "builder", "main"}
    /\ options \in IF scan_pc = "builder"
                   THEN [update_symlinks : BOOLEAN, dry_run : BOOLEAN]
                   ELSE IF scan_pc = "main"
                   THEN [update_symlinks : {TRUE}, dry_run : BOOLEAN]
                   ELSE {[update_symlinks |-> FALSE, dry_run |-> TRUE]}
    /\ scan_result = None
    /\ runs = <<>>
    /\ prefix = IF scan_pc = "main" THEN Some(<<47>>) ELSE None
    /\ libraries = <<>> /\ cache = <<>> /\ data = <<>>
    /\ parsed = "none" /\ codec_pc = "idle"
    /\ CmpIdle
    /\ DedupIdle
    /\ WriterIdle

\* the caller scans the search directories
ScanAllLibraries ==
    /\ scan_pc = "api"
    /\ \E result \in scan_all_libraries(fs, cwd, directories) :
          /\ scan_result' = result
          /\ scan_pc' = IF result = None THEN "scan_failed" ELSE "scanned"
    /\ UNCHANGED <<fs0, directories, options, runs, fs_vars, codec_vars, cmp_vars, dedup_vars, writer_vars>>

\* the caller reconciles the links of the real files scanned, dry or not
UpdateSymlinks ==
    /\ scan_pc = "scanned"
    /\ scan_result # None
    /\ Len(runs) < MaxRuns
    /\ \E dry_run \in BOOLEAN :
          \E r \in update_symlinks(fs, cwd, scan_result[1].real_files, dry_run) :
              /\ fs' = r.fs
              /\ runs' = Append(runs, [dry_run |-> dry_run, ok |-> r.ok, actions |-> r.actions,
                                       before |-> fs, after |-> r.fs,
                                       libs |-> scan_result[1].real_files])
    /\ UNCHANGED <<fs0, directories, options, scan_result, scan_pc, cwd, codec_vars, cmp_vars, dedup_vars, writer_vars>>

\* the caller has CacheBuilder scan the configured directories
ScanDirectories ==
    /\ scan_pc = "builder"
    /\ \E r \in scan_directories(fs, cwd, directories, options) :
          /\ fs' = r.fs
          /\ libraries' = r.libraries
          /\ scan_pc' = IF r.ok THEN "collected" ELSE "collect_failed"
          /\ codec_pc' = IF r.ok THEN "start" ELSE codec_pc
    /\ UNCHANGED <<fs0, directories, options, scan_result, runs, cwd,
                   prefix, cache, data, parsed, cmp_vars, dedup_vars, writer_vars>>

\* main, from the deduplication of the search directories to build_cache
MainBuildCache ==
    /\ scan_pc = "main"
    /\ \E r \in main_build_cache(fs, cwd, directories, prefix) :
          /\ scan_result' = IF r.ok THEN Some([scan_dirs |-> r.scan_dirs, libraries |-> r.libraries])
                                    ELSE None
          /\ cache' = r.cache
          /\ scan_pc' = IF r.ok THEN "main_built" ELSE "main_failed"
          /\ codec_pc' = IF r.ok THEN "built" ELSE codec_pc
    /\ UNCHANGED <<fs0, directories, options, runs, fs_vars,
                   libraries, prefix, data, parsed, cmp_vars, dedup_vars, writer_vars>>

\* main, after build_cache: nothing more under dry_run; otherwise the cache
\* file is written (an error ends main, the file left as it was or cut short)
\* and then update_symlinks is called for every scan directory
MainWriteAndUpdate ==
    /\ scan_pc = "main_built"
    /\ \/ /\ options.dry_run
          /\ scan_pc' = "main_done"
          /\ UNCHANGED <<fs, runs, dest, durable>>
       \/ /\ ~options.dry_run
          /\ scan_pc' = "main_failed"
          /\ dest' \in {dest, Some(<<>>)}
          /\ UNCHANGED <<fs, runs, durable>>
       \/ /\ ~options.dry_run
          /\ scan_pc' = "main_done"
          /\ dest' = Some(cache) /\ durable' = Some(cache)
          /\ \E r \in main_update_symlinks(fs, cwd, scan_result[1].scan_dirs,
                                           scan_result[1].libraries, runs) :
                fs' = r.fs /\ runs' = r.runs
    /\ UNCHANGED <<fs0, directories, options, scan_result, cwd, writer_pc,
                   codec_vars, cmp_vars, dedup_vars>>

ScanNext ==
    \/ ScanAllLibraries
    \/ UpdateSymlinks
    \/ ScanDirectories
    \/ MainBuildCache
    \/ MainWriteAndUpdate
    \/ BuildCache
    \/ GiveBuilt
    \/ ParseCache

SpecFs == ScanInit /\ [][ScanNext]_vars

(***************************************************************************)
(* Claims about reconciler, scanner and builder.                           *)
(***************************************************************************)
\* C3: once update_symlinks has run with dry_run off and returned Ok, the
\* next run over the same real files returns Ok with no action and leaves
\* the filesystem as it was, whatever the working directory.
C3_Idempotence ==
    \A i \in 1..(Len(runs) - 1) :
        (~runs[i].dry_run /\ runs[i].ok) =>
            /\ runs[i + 1].ok
            /\ runs[i + 1].actions = <<>>
            /\ runs[i + 1].after = runs[i + 1].before

\* C4: a call of update_symlinks with dry_run set returns Ok and leaves the
\* filesystem as it was, and CacheBuilder::scan_directories with dry_run
\* set leaves the filesystem as it was before the call.
C4_DryRunFrame ==
    /\ \A i \in DOMAIN runs :
          runs[i].dry_run => runs[i].ok /\ runs[i].after = runs[i].before
    /\ (scan_pc \in {"collected", "collect_failed"} /\ options.dry_run) => fs = fs0

\* a dry run returned an action for a link that is missing or stale
C4_Witness ==
    \E i \in DOMAIN runs :
        /\ runs[i].dry_run /\ runs[i].actions # <<>>
        /\ runs[i].after = runs[i].before

\* /a holds the real file libfoo.so.2.0.0 (declaring libfoo.so.2) and nothing else
SingleFileFs ==
    (dir_a :> Dir) @@ (dir_s :> Link(dir_a))
    @@ (join(dir_a, libfoo_so_2_0_0) :> SharedObject(libfoo_so_2, "X86_64"))

\* the rebuild of the scenario is over: scan_directories with symlink update
\* on and dry-run off, build, and the cache read back
RebuiltSingleFile ==
    /\ fs0 = SingleFileFs /\ directories = <<dir_a>>
    /\ options = [update_symlinks |-> TRUE, dry_run |-> FALSE]
    /\ scan_pc = "collected" /\ ParsedBuilt

\* the path an entry of the parsed cache resolves to
EntryPath(i) == cstr_at(cache, parsed.entries[i].value_offset)

\* C6 (as amended): the rebuild creates the link libfoo.so.2 ->
\* libfoo.so.2.0.0 in /a, and the cache has exactly one entry, keyed by the
\* link's name libfoo.so.2, whose path /a/libfoo.so.2 resolves to the real
\* file; there is no entry for libfoo.so.2.0.0 and none for libfoo.so.
C6_EndToEnd ==
    RebuiltSingleFile =>
        /\ lstat(fs, cwd, join(dir_a, libfoo_so_2)) = Some(Link(libfoo_so_2_0_0))
        /\ parsed.outcome = "ok"
        /\ Len(parsed.entries) = 1
        /\ EntryName(1) = libfoo_so_2
        /\ EntryPath(1) = join(dir_a, libfoo_so_2)
        /\ canonicalize(fs, cwd, EntryPath(1)) = Some(join(dir_a, libfoo_so_2_0_0))

\* the scenario was run from a working directory other than /a
C6_Witness == RebuiltSingleFile /\ cwd = <<47>> /\ Len(parsed.entries) = 1

\* C6 as stated: the one entry is keyed by the real file's name libfoo.so.2.0.0.
C6_Original ==
    RebuiltSingleFile =>
        /\ lstat(fs, cwd, join(dir_a, libfoo_so_2)) = Some(Link(libfoo_so_2_0_0))
        /\ parsed.outcome = "ok"
        /\ Len(parsed.entries) = 1
        /\ EntryName(1) = libfoo_so_2_0_0
        /\ canonicalize(fs, cwd, EntryPath(1)) = Some(join(dir_a, libfoo_so_2_0_0))
        /\ \A i \in DOMAIN parsed.entries : EntryName(i) # libfoo_so

\* the descriptors scan_all_libraries returned
Scanned == scan_result[1].real_files \o scan_result[1].symlinks

\* the directory a descriptor's file is in
DirOf(lib) == parent(lib.path)[1]

\* the directory of lib is a recognized tier subdirectory of a search directory
InTier(lib) ==
    /\ from_path_component(unwrap_or(file_name(DirOf(lib)), <<>>)) # None
    /\ \E i \in DOMAIN directories : parent(DirOf(lib)) = Some(directories[i])

\* to_bitmask(tag of lib's directory, lib's architecture)
TierBitmask(lib) == to_bitmask(from_path_component(file_name(DirOf(lib))[1])[1], lib.arch)

\* the directory of lib is listed as a search directory itself
InSearchDir(lib) == \E i \in DOMAIN directories : DirOf(lib) = directories[i]

LinksMade(run) ==
    {q \in DOMAIN run.after :
        /\ run.after[q].kind = "link"
        /\ (q \notin DOMAIN run.before \/ run.before[q] # run.after[q])}

\* the library files of f that are not named after their declared name
NeedLink(f) ==
    {q \in DOMAIN f :
        /\ parse_elf_file(f, <<47>>, q) # None
        /\ f[q].kind = "file"
        /\ f[q].elf[1].soname # file_name(q)[1]}

\* C11: a link that could not be created is reported to the caller of the
\* rebuild, and does not keep the actions of the other groups from being
\* returned: every link a run made is among the actions the run returned, and
\* when scan_directories (symlink update on, dry-run off) returns Ok, no
\* link is missing.
C11_FailureReported ==
    /\ \A i \in DOMAIN runs :
          \A q \in LinksMade(runs[i]) :
              \E k \in DOMAIN runs[i].actions :
                  locate(runs[i].after, cwd, runs[i].actions[k].link) = Some(q)
    /\ (scan_pc = "collected" /\ options.update_symlinks /\ ~options.dry_run) =>
          \A q \in NeedLink(fs) :
              is_symlink(fs, cwd, join(parent(q)[1], fs[q].elf[1].soname))

\* read_dir cannot list d: d resolves to nothing, to something that is no
\* directory, or to a directory that may not be listed
Unreadable(f, wd, d) ==
    LET n == stat(f, wd, d)
    IN  n = None \/ n[1].kind # "dir" \/ "list" \in DOMAIN n[1]

\* d is a recognized capability-tier subdirectory of the search directory b
TierOf(f, wd, b) ==
    {d \in {join(b, n) : n \in children(f, wd, b)} :
        /\ from_path_component(file_name(d)[1]) # None
        /\ stat(f, wd, d) # None
        /\ stat(f, wd, d)[1].kind = "dir"}

\* p resolves to a file the Extractor accepts: a shared object with a dynamic
\* segment and section, a declared name and a known machine
IsLibrary(f, wd, p) ==
    LET n == stat(f, wd, p)
    IN  /\ n # None
        /\ n[1].kind = "file"
        /\ n[1].elf # None
        /\ n[1].elf[1].et_dyn /\ n[1].elf[1].pt_dynamic /\ n[1].elf[1].dynamic
        /\ n[1].elf[1].soname # <<>>
        /\ n[1].elf[1].machine \in {"X86_64", "AArch64", "RiscV64", "PowerPC64", "I686", "ARM"}

\* the paths the scan visits: the entries of the search directories that
\* exist and of their tier subdirectories
Visited(f, wd, dirs) ==
    UNION {{join(d, n) : n \in children(f, wd, d)} :
              d \in UNION {{dirs[i]} \cup TierOf(f, wd, dirs[i]) :
                              i \in {j \in DOMAIN dirs : exists(f, wd, dirs[j])}}}

\* C12: scan_all_libraries returns Err exactly when a search directory that
\* exists, or one of its tier subdirectories, cannot be read; a missing
\* search directory and a candidate the Extractor rejects are skipped, and
\* an Ok scan returns a descriptor for exactly the visited candidates that
\* are libraries.
C12_ScanErrorPolicy ==
    /\ scan_pc = "scan_failed" <=>
          /\ scan_pc \in {"scan_failed", "scanned"}
          /\ \E i \in DOMAIN directories :
                /\ exists(fs0, cwd, directories[i])
                /\ \/ Unreadable(fs0, cwd, directories[i])
                   \/ \E t \in TierOf(fs0, cwd, directories[i]) : Unreadable(fs0, cwd, t)
    /\ scan_pc = "scanned" =>
          {Scanned[i].path : i \in DOMAIN Scanned}
              = {p \in Visited(fs0, cwd, directories) :
                    should_scan_library(p) /\ IsLibrary(fs0, cwd, p)}

\* a scan over a missing directory and a directory holding rejected files
\* returned the library next to them
C12_Witness ==
    /\ scan_pc = "scanned"
    /\ \E i \in DOMAIN directories : ~exists(fs0, cwd, directories[i])
    /\ \E p \in Visited(fs0, cwd, directories) :
          should_scan_library(p) /\ ~IsLibrary(fs0, cwd, p)
    /\ Scanned # <<>>

\* C16: every descriptor has a declared name that is not empty: those the
\* scan returns, those of the final entry list, and the one parse_elf_file
\* gives for any path; a path that resolves to no shared object with a
\* dynamic segment, a declared name and a supported machine has no descriptor.
C16_DeclaredName ==
    /\ scan_pc = "scanned" =>
          \A i \in DOMAIN Scanned :
              Scanned[i].soname # <<>> /\ IsLibrary(fs0, cwd, Scanned[i].path)
    /\ scan_pc = "collected" =>
          \A i \in DOMAIN libraries :
              libraries[i].soname # <<>> /\ IsLibrary(fs, cwd, libraries[i].path)
    /\ scan_pc = "main_built" =>
          \A i \in DOMAIN scan_result[1].libraries :
              /\ scan_result[1].libraries[i].soname # <<>>
              /\ IsLibrary(fs, cwd, scan_result[1].libraries[i].path)
    /\ \A p \in DOMAIN fs :
          IF IsLibrary(fs, cwd, p)
          THEN /\ parse_elf_file(fs, cwd, p) # None
               /\ parse_elf_file(fs, cwd, p)[1].soname = stat(fs, cwd, p)[1].elf[1].soname
          ELSE parse_elf_file(fs, cwd, p) = None

\* the final entry list of a directory that holds a library next to a file
\* with an empty declared name and the other rejected files
C16_Witness ==
    /\ scan_pc = "collected"
    /\ libraries # <<>>
    /\ \A n \in DOMAIN NotLibraries : join(dir_a, n) \in DOMAIN fs
    /\ \E i \in DOMAIN directories : canonicalize(fs, cwd, directories[i]) = Some(dir_a)

\* C17: a run of update_symlinks with dry_run off removes or replaces
\* symbolic links only: every object that the run removed or changed was a
\* link before the run, so every regular file is the same file after it.
C17_NoFileDestroyed ==
    \A i \in DOMAIN runs :
        ~runs[i].dry_run =>
            \A q \in DOMAIN runs[i].before :
                (q \notin DOMAIN runs[i].after \/ runs[i].after[q] # runs[i].before[q])
                    => runs[i].before[q].kind = "link"

\* the file an action selected: its target, relative to the link's directory
SelectedBy(a) == join(parent(a.link)[1], a.target)

\* C18: every action a run returns is of kind Create exactly when nothing was
\* at its link path before the run and of kind Update exactly when an object
\* was there, that object then not resolving to the selected file; no action
\* is of kind Skip.
C18_ActionKinds ==
    \A i \in DOMAIN runs :
        \A k \in DOMAIN runs[i].actions :
            LET a == runs[i].actions[k]
                at_link == lstat(runs[i].before, cwd, a.link)
            IN  /\ a.action = "Create" <=> at_link = None
                /\ a.action = "Update" <=> at_link # None
                /\ a.action # "Skip"
                /\ at_link # None =>
                      canonicalize(runs[i].before, cwd, a.link)
                          # canonicalize(runs[i].before, cwd, SelectedBy(a))

\* the real files a run was given: the descriptors passed in whose path was
\* no symbolic link when the run began
RealFiles(run) ==
    {run.libs[i] : i \in {j \in DOMAIN run.libs : ~is_symlink(run.before, cwd, run.libs[j].path)}}

\* the group of a declared name
Group(run, soname) == {lib \in RealFiles(run) : lib.soname = soname}

FileName(lib) == unwrap_or(file_name(lib.path), <<>>)

\* m is maximal in G: no member of G compares above it
Maximal(G, m) ==
    \A o \in G : compare_library_versions(FileName(m), FileName(o)) # "Less"

\* the path of the link required for m
LinkPath(m) == join(parent(m.path)[1], m.soname)

\* the run made no link and returned no action for the declared name
NoLinkFor(run, soname) ==
    /\ \A k \in DOMAIN run.actions : file_name(run.actions[k].link) # Some(soname)
    /\ \A q \in LinksMade(run) : file_name(q) # Some(soname)

\* the runs the postcondition is about
Successful(run) == run.ok /\ ~run.dry_run

Rebuilding == scan_pc \in {"builder", "main", "main_built"}

\* a rebuild is over and its cache was read back
Rebuilt == scan_pc \in {"collected", "main_done"} /\ ParsedBuilt

\* the links the rebuild made
LinksMadeByRebuild ==
    {q \in DOMAIN fs : fs[q].kind = "link" /\ (q \notin DOMAIN fs0 \/ fs0[q] # fs[q])}

\* every link the rebuild made has an entry in the rebuild's cache, keyed by
\* the link's name and naming the link's path
LinksInCache ==
    Rebuilt =>
        /\ parsed.outcome = "ok"
        /\ \A q \in LinksMadeByRebuild :
              \E i \in DOMAIN parsed.entries :
                  /\ EntryName(i) = file_name(q)[1]
                  /\ locate(fs, cwd, EntryPath(i)) = Some(q)

\* a step of a rebuild that calls update_symlinks or changes the filesystem
\* is taken before build_cache has assembled the cache
ReconcileThenAssemble ==
    (Rebuilding /\ (runs' # runs \/ fs' # fs)) => cache = <<>>

\* C20: in every rebuild path, CacheBuilder's and main's, the links are
\* reconciled before the cache is assembled, and every link the rebuild made
\* has an entry keyed by its name in the cache of that rebuild.
C20_RebuildOrdering == [][ReconcileThenAssemble]_vars /\ []LinksInCache

\* name ends in a bare .so: no ".so." inside it
BareSo(name) == ends_with(name, <<46, 115, 111>>) /\ ~contains(name, <<46, 115, 111, 46>>)

\* the link at path has a target whose filename is the base of name (name
\* without its ".so"), a dot, and more, with ".so." inside
VersionedTarget(f, name, path) ==
    /\ read_link(f, cwd, path) # None
    /\ LET target_name == unwrap_or(file_name(read_link(f, cwd, path)[1]), <<>>)
       IN  /\ starts_with(target_name, SubSeq(name, 1, Len(name) - 3) \o <<46>>)
           /\ contains(target_name, <<46, 115, 111, 46>>)

\* lib may be an entry: a real file named after its declared name, a bare
\* .so link to a versioned file of the same base, or another link named
\* after its declared name
Eligible(f, lib) ==
    IF ~is_symlink(f, cwd, lib.path) THEN FileName(lib) = lib.soname
    ELSE IF BareSo(FileName(lib)) THEN VersionedTarget(f, FileName(lib), lib.path)
    ELSE FileName(lib) = lib.soname

\* C21: every descriptor of the entry list that CacheBuilder::scan_directories
\* ends with is eligible; a real file whose filename differs from its
\* declared name is no entry.
C21_Eligibility ==
    scan_pc = "collected" =>
        \A i \in DOMAIN libraries : Eligible(fs, libraries[i])

\* C22: the entries of a built cache are in the order of the version
\* comparator: compare_library_versions of the filenames of two consecutive
\* entries is Greater or Equal, and libfoo.so.10 comes before libfoo.so.9.
C22_ComparatorOrder ==
    ParsedBuilt =>
        /\ \A i \in 1..(Len(parsed.entries) - 1) :
              compare_library_versions(EntryName(i), EntryName(i + 1)) \in {"Greater", "Equal"}
        /\ \A i, j \in 1..Len(parsed.entries) :
              (EntryName(i) = libfoo_so_10 /\ EntryName(j) = libfoo_so_9) => i < j

\* the bitmask of lib is the registry's bitmask of a tier named by a
\* component of lib's path, for lib's architecture
RegistryBitmask(lib) ==
    \E k \in DOMAIN components(lib.path) :
        /\ from_path_component(components(lib.path)[k]) # None
        /\ lib.hwcap = Some(to_bitmask(from_path_component(components(lib.path)[k])[1], lib.arch))

\* C23: every descriptor scan_all_libraries returns, from a base search
\* directory or from a tier subdirectory, has no bitmask or the bitmask
\* to_bitmask(tag, the descriptor's architecture) of a registry tag that
\* matches a component of its path: the path-based guess of the Extractor
\* never survives with another value.
C23_ArchConsistent ==
    scan_pc = "scanned" =>
        \A n \in DOMAIN Scanned :
            Scanned[n].hwcap = None \/ RegistryBitmask(Scanned[n])

\* the place in the search-path list of the directory the path is in
SearchIndex(path) ==
    LET dir == unwrap_or(parent(path), <<>>)
        at == {k \in DOMAIN directories :
                  unwrap_or(canonicalize(fs, cwd, directories[k]), directories[k]) = dir}
    IN  IF at = {} THEN Len(directories) + 1
        ELSE CHOOSE k \in at : \A m \in at : k <= m

\* C24: a rebuild (directory deduplication, scan, entry deduplication,
\* build_cache) run again over the same search-path list and the unchanged
\* filesystem gives the same cache bytes; two entries with the same filename
\* and the same bitmask from two search directories are in the order of the
\* search-path list.
C24_RebuildDeterminism ==
    /\ (scan_pc = "collected" /\ fs = fs0) =>
           \A r \in scan_directories(fs0, cwd, directories, options) :
               r.ok => build_cache(r.fs, cwd, r.libraries, prefix)
                           = build_cache(fs, cwd, libraries, prefix)
    /\ (scan_pc = "collected" /\ fs = fs0 /\ ParsedBuilt) =>
           \A i, j \in DOMAIN parsed.entries :
               (/\ i < j
                /\ EntryName(i) = EntryName(j)
                /\ parsed.entries[i].hwcap = parsed.entries[j].hwcap)
               => SearchIndex(EntryPath(i)) <= SearchIndex(EntryPath(j))

\* the real files of a run that are in the directory of lib and declare the
\* name lib declares
GroupInDir(run, lib) ==
    {o \in Group(run, lib.soname) : DirOf(o) = DirOf(lib)}

\* a real file of the run, in the directory of lib, is named as lib declares
NamedInDir(run, lib) ==
    \E o \in RealFiles(run) : DirOf(o) = DirOf(lib) /\ FileName(o) = lib.soname

\* C25: after a successful run of update_symlinks with dry_run off, every
\* directory D with a real file declaring N, and no real file named N, has a
\* symbolic link D/N to the highest-versioned real file of D that declares N,
\* whatever other directories hold.
C25_LinkInEveryDirectory ==
    \A i \in DOMAIN runs :
        Successful(runs[i]) =>
            \A lib \in RealFiles(runs[i]) :
                ~NamedInDir(runs[i], lib) =>
                    /\ is_symlink(runs[i].after, cwd, LinkPath(lib))
                    /\ \E m \in GroupInDir(runs[i], lib) :
                          /\ Maximal(GroupInDir(runs[i], lib), m)
                          /\ canonicalize(runs[i].after, cwd, LinkPath(lib))
                                 = canonicalize(runs[i].after, cwd, m.path)

\* C26: the flags of every entry are the base value 0x0003 or-ed with an
\* architecture constant in bits 8-15 (the base value alone for i686, 32-bit
\* x86-64 and soft-float ARM), and they are the flags the exported
\* cache::build_cache computes for the same descriptor.
C26_OneFlagsMapping ==
    (scan_pc = "collected" /\ ParsedBuilt) =>
        \A i \in DOMAIN parsed.entries :
            \E k \in DOMAIN libraries :
                /\ EntryPath(i) = path_to_add(fs, cwd, libraries[k], prefix)
                /\ parsed.entries[i].flags % 256 = FLAG_ELF_LIBC6
                /\ parsed.entries[i].flags < 65536
                /\ (\/ libraries[k].arch = "I686"
                    \/ libraries[k].arch = "X86_64" /\ ~libraries[k].is_64bit
                    \/ libraries[k].arch = "ARM" /\ ~libraries[k].is_hardfloat)
                       => parsed.entries[i].flags = FLAG_ELF_LIBC6
                /\ parsed.entries[i].flags = old_build_cache_flags(libraries[k])

\* the name of the tier directory a descriptor's file is in
TierName(lib) == unwrap_or(file_name(DirOf(lib)), <<>>)

\* the (tier name, architecture) pairs the registry gives a bitmask for
DefinedPair(name, arch) ==
    \/ arch = "X86_64" /\ name \in {x86_64_v2, x86_64_v3, x86_64_v4, haswell, avx512, sse}
    \/ arch = "AArch64" /\ name \in {asimd, neon, sve2}
    \/ arch = "PowerPC64" /\ name \in {power9, power10}

\* C27: two descriptors of one architecture from two recognized tier
\* directories with different names never carry the same nonzero bitmask, and
\* a descriptor from a tier whose (tag, architecture) pair the registry does
\* not define carries 0.
C27_StrictTiers ==
    scan_pc = "scanned" =>
        /\ \A n, m \in DOMAIN Scanned :
              (/\ InTier(Scanned[n]) /\ ~InSearchDir(Scanned[n])
               /\ InTier(Scanned[m]) /\ ~InSearchDir(Scanned[m])
               /\ Scanned[n].arch = Scanned[m].arch
               /\ TierName(Scanned[n]) # TierName(Scanned[m])
               /\ Scanned[n].hwcap = Scanned[m].hwcap)
              => Scanned[n].hwcap = Some(0)
        /\ \A n \in DOMAIN Scanned :
              (/\ InTier(Scanned[n]) /\ ~InSearchDir(Scanned[n])
               /\ ~DefinedPair(TierName(Scanned[n]), Scanned[n].arch))
              => Scanned[n].hwcap = Some(0)

(***************************************************************************)
(* Claims about the deduplicator, under SpecDedup.                         *)
(***************************************************************************)
\* the (parent directory, filename) pair of a descriptor
PairOf(lib) == <<parent(lib.path), file_name(lib.path)>>

\* the first descriptor of the input with the pair of lib
FirstWith(pair) ==
    dedup_in[CHOOSE i \in DOMAIN dedup_in :
                /\ PairOf(dedup_in[i]) = pair
                /\ \A j \in 1..(i - 1) : PairOf(dedup_in[j]) # pair]

\* C14: deduplicate_libraries returns exactly one descriptor per (parent
\* directory, filename) pair of its input, the first of the input with this
\* pair, and nothing else; two descriptors with one declared name in
\* different directories are both kept.
C14_EntryDedup ==
    dedup_pc = "unique_libraries" =>
        /\ \A i \in DOMAIN dedup_in :
              /\ Cardinality({k \in DOMAIN dedup_out :
                                 PairOf(dedup_out[k]) = PairOf(dedup_in[i])}) = 1
              /\ \E k \in DOMAIN dedup_out : dedup_out[k] = FirstWith(PairOf(dedup_in[i]))
        /\ \A k \in DOMAIN dedup_out : \E i \in DOMAIN dedup_in : dedup_out[k] = dedup_in[i]
        /\ \A i, j \in DOMAIN dedup_in :
              (/\ dedup_in[i].soname = dedup_in[j].soname
               /\ parent(dedup_in[i].path) # parent(dedup_in[j].path))
              => \E k, l \in DOMAIN dedup_out :
                    /\ k # l
                    /\ dedup_out[k].path = dedup_in[i].path
                    /\ dedup_out[l].path = dedup_in[j].path

\* two different descriptors of one file, and a descriptor of the same
\* declared name in another directory, were deduplicated
C14_Witness ==
    /\ dedup_pc = "unique_libraries"
    /\ \E i, j \in DOMAIN dedup_in :
          i < j /\ PairOf(dedup_in[i]) = PairOf(dedup_in[j]) /\ dedup_in[i] # dedup_in[j]
    /\ \E i, j \in DOMAIN dedup_in :
          /\ dedup_in[i].soname = dedup_in[j].soname
          /\ parent(dedup_in[i].path) # parent(dedup_in[j].path)
    /\ Len(dedup_out) = 2

\* the canonical path of d, d itself when there is none
CanonicalOrSelf(d) ==
    IF canonicalize(fs, cwd, d) = None THEN d ELSE canonicalize(fs, cwd, d)[1]

\* C15: deduplicate_scan_directories returns exactly one path per distinct
\* canonical path of its input, in canonical form and never in a spelling
\* that is not canonical; a directory that cannot be canonicalized is in the
\* result unchanged.
C15_DirectoryDedup ==
    dedup_pc = "unique_directories" =>
        /\ {dedup_out[k] : k \in DOMAIN dedup_out}
              = {CanonicalOrSelf(dedup_in[i]) : i \in DOMAIN dedup_in}
        /\ \A k, l \in DOMAIN dedup_out : dedup_out[k] = dedup_out[l] => k = l
        /\ \A k \in DOMAIN dedup_out :
              \/ canonicalize(fs, cwd, dedup_out[k]) = Some(dedup_out[k])
              \/ /\ canonicalize(fs, cwd, dedup_out[k]) = None
                 /\ \E i \in DOMAIN dedup_in : dedup_in[i] = dedup_out[k]
        /\ \A i \in DOMAIN dedup_in :
              canonicalize(fs, cwd, dedup_in[i]) = None
                  => \E k \in DOMAIN dedup_out : dedup_out[k] = dedup_in[i]

\* the link /s, the directory /a it names and the missing /n were given: the
\* result is /a and /n
C15_Witness ==
    /\ dedup_pc = "unique_directories"
    /\ {dedup_in[i] : i \in DOMAIN dedup_in} = {dir_s, dir_a, dir_n}
    /\ dedup_in[1] = dir_s
    /\ {dedup_out[k] : k \in DOMAIN dedup_out} = {dir_a, dir_n}

(***************************************************************************)
(* Claims about the writer, under SpecWriter.                              *)
(***************************************************************************)
\* C13: write_to_file returns Ok only when every byte of the cache is in the
\* destination file and on stable storage, and the destination is replaced
\* only then: until Ok is returned the destination path holds what it held
\* before the call (which is what stable storage holds), never an empty or
\* partly written cache.
C13_ReplaceLast ==
    /\ writer_pc = "Ok" => dest = Some(cache) /\ durable = Some(cache)
    /\ writer_pc # "Ok" => dest = durable
    /\ dest # None => dest[1] # <<>> /\ ~IsStrictPrefix(dest[1], cache)

(***************************************************************************)
(* C30: the comparator as an order, and the selection built on it.         *)
(***************************************************************************)
\* Ordering::reverse
Reversed(o) == IF o = "Less" THEN "Greater" ELSE IF o = "Greater" THEN "Less" ELSE o

\* x compares Greater or Equal against y
AtLeast(x, y) == compare_library_versions(x, y) \in {"Greater", "Equal"}

\* the third names of a triple: "", "0", "00", "1", ".", "a", "libfoo.so.9"
\* and "libfoo.so.10"
ThirdNames ==
    {<<>>, <<48>>, <<48, 48>>, <<49>>, <<46>>, <<97>>, libfoo_so_9, libfoo_so_10}

\* n can be the name of a file: the final component of /a/n is n
IsFileName(n) == file_name(join(dir_a, n)) = Some(n)

\* the group of the files of /a with the given names, in the given order
GroupOf(names) ==
    [k \in DOMAIN names |->
        ElfLibrary(libfoo_so, join(dir_a, names[k]), "X86_64", TRUE, FALSE, None)]

\* the selected name is at least every name of the group
IsMaximum(selected, names) ==
    \A k \in DOMAIN names : compare_library_versions(selected, names[k]) # "Less"

\* the member selected from the group is at least every member
SelectsMaximum(names) ==
    IsMaximum(FileName(find_highest_version_library(GroupOf(names))), names)

\* the six orders a group of three can be listed in
Listings(x, y, z) ==
    {<<x, y, z>>, <<x, z, y>>, <<y, x, z>>, <<y, z, x>>, <<z, x, y>>, <<z, y, x>>}

\* Greater-or-Equal is transitive on x, y, z in each of the orders that put
\* x before y
TransitiveOn(x, y, z, x_y, y_z, x_z, z_y, z_x) ==
    /\ (x_y /\ y_z) => x_z
    /\ (x_z /\ z_y) => x_y
    /\ (z_x /\ x_y) => z_y

\* C30: compare_library_versions(a, b) is the reverse of
\* compare_library_versions(b, a); Greater-or-Equal is transitive; and the
\* member find_highest_version_library selects from a group is greater than
\* or equal to every member, in whatever order the group is listed.
C30_ConsistentOrder ==
    CmpDone =>
        /\ cmp_out = Reversed(compare_library_versions(cmp_b, cmp_a))
        /\ \A c \in ThirdNames :
              /\ TransitiveOn(cmp_a, cmp_b, c, cmp_out \in {"Greater", "Equal"},
                              AtLeast(cmp_b, c), AtLeast(cmp_a, c),
                              AtLeast(c, cmp_b), AtLeast(c, cmp_a))
              /\ (IsFileName(cmp_a) /\ IsFileName(cmp_b) /\ IsFileName(c)) =>
                     \A names \in Listings(cmp_a, cmp_b, c) : SelectsMaximum(names)

\* two different file names were compared and found Equal, a digit run of
\* one of them only being spelled longer
C30_Witness ==
    /\ CmpDone /\ cmp_out = "Equal" /\ cmp_a # cmp_b
    /\ IsFileName(cmp_a) /\ IsFileName(cmp_b)

====
